---- MODULE Spec2Model ----
(***************************************************************************)
(* A model of the osgrid package (paulcager/osgridref): the OS grid        *)
(* reference <-> latitude/longitude pipeline (Transverse Mercator          *)
(* projection and its inverse) and the datum-transformation engine         *)
(* (geodetic <-> geocentric conversion, Helmert transform through the      *)
(* WGS84 hub).                                                             *)
(*                                                                         *)
(* float64 values are modelled as floating-point numbers in radix Base     *)
(* with a mantissa of Limbs limbs (Limbs = 5, Base = 10^4: 17 to 20        *)
(* significant decimal digits, against float64's 15.95), with NaN and      *)
(* the infinities.  The arithmetic is carried out limb by limb so that     *)
(* no intermediate value leaves the range of the checker's integers.       *)
(***************************************************************************)
EXTENDS Integers, Sequences, FiniteSets, TLC

(***************************************************************************)
(* Floating-point numbers                                                  *)
(***************************************************************************)

\* The radix of a limb and the number of limbs of a mantissa.
Base == 10 ^ 4
Limbs == 5

\* A finite non-zero number is s * 0.m[1]m[2]...m[Limbs] * Base^e with m[1] # 0.
NaN == [k |-> "nan", s |-> 1, e |-> 0, m |-> <<>>]
Zero == [k |-> "zero", s |-> 1, e |-> 0, m |-> <<>>]
Inf(s) == [k |-> "inf", s |-> s, e |-> 0, m |-> <<>>]
Fin(s, e, m) == [k |-> "fin", s |-> s, e |-> e, m |-> m]

IsNaN(a) == a.k = "nan"
IsFinite(a) == a.k \in {"fin", "zero"}

\* The value v under the name of Body's parameter: v is computed first and once, whatever
\* the number of its uses in Body (a local variable of the code, assigned before its uses).
With(v, Body(_)) == CHOOSE r \in {Body(x) : x \in {v}} : TRUE
With2(v1, v2, Body(_, _)) == CHOOSE r \in {Body(x1, x2) : x1 \in {v1}, x2 \in {v2}} : TRUE
With3(v1, v2, v3, Body(_, _, _)) ==
    CHOOSE r \in {Body(x1, x2, x3) : x1 \in {v1}, x2 \in {v2}, x3 \in {v3}} : TRUE
With4(v1, v2, v3, v4, Body(_, _, _, _)) ==
    CHOOSE r \in {Body(x1, x2, x3, x4) : x1 \in {v1}, x2 \in {v2}, x3 \in {v3}, x4 \in {v4}} :
        TRUE
With6(v1, v2, v3, v4, v5, v6, Body(_, _, _, _, _, _)) ==
    CHOOSE r \in {Body(x1, x2, x3, x4, x5, x6) :
                    x1 \in {v1}, x2 \in {v2}, x3 \in {v3},
                    x4 \in {v4}, x5 \in {v5}, x6 \in {v6}} : TRUE
With7(v1, v2, v3, v4, v5, v6, v7, Body(_, _, _, _, _, _, _)) ==
    CHOOSE r \in {Body(x1, x2, x3, x4, x5, x6, x7) :
                    x1 \in {v1}, x2 \in {v2}, x3 \in {v3}, x4 \in {v4},
                    x5 \in {v5}, x6 \in {v6}, x7 \in {v7}} : TRUE

Limb(d, i) == IF i >= 1 /\ i <= Len(d) THEN d[i] ELSE 0

RECURSIVE FirstNonZero(_, _)
FirstNonZero(d, i) ==
    IF i > Len(d) THEN 0
    ELSE IF d[i] # 0 THEN i
    ELSE FirstNonZero(d, i + 1)

\* Carry propagation over the columns c[1..i], least significant last; the
\* result has one limb more than c, the first being the carry out.
RECURSIVE CarryFrom(_, _, _, _)
CarryFrom(c, i, carry, acc) ==
    IF i = 0 THEN <<carry>> \o acc
    ELSE CarryFrom(c, i - 1, (c[i] + carry) \div Base, <<(c[i] + carry) % Base>> \o acc)

\* The number s * 0.d[1]d[2]... * Base^e, normalised and rounded to nearest
\* (on the first limb dropped).
Rounded(s, e, r) ==
    IF r[1] = 0 THEN Fin(s, e, Tail(r))
    ELSE Fin(s, e + 1, <<1>> \o SubSeq(r, 3, Limbs + 1))

NormFrom(s, e, d, f) ==
    IF f = 0 THEN Zero
    ELSE Rounded(s, e - (f - 1),
                 CarryFrom([i \in 1..Limbs |->
                              Limb(d, f + i - 1)
                                + (IF i = Limbs /\ 2 * Limb(d, f + Limbs) >= Base THEN 1 ELSE 0)],
                           Limbs, 0, <<>>))

Norm(s, e, d) == NormFrom(s, e, d, FirstNonZero(d, 1))

FNeg(a) == IF a.k \in {"fin", "inf"} THEN [a EXCEPT !.s = -a.s] ELSE a
FAbs(a) == IF a.k \in {"fin", "inf"} THEN [a EXCEPT !.s = 1] ELSE a

RECURSIVE ColSum(_, _, _, _)
ColSum(x, y, j, i) ==
    IF i > Limbs \/ i > j - 1 THEN 0
    ELSE x[i] * y[j - i] + ColSum(x, y, j, i + 1)

MulMant(x, y) ==
    CarryFrom([j \in 1..(2 * Limbs) |->
                 IF j = 1 THEN 0
                 ELSE ColSum(x, y, j, IF j - Limbs > 1 THEN j - Limbs ELSE 1)],
              2 * Limbs, 0, <<>>)

\* a * b
FMul(a, b) ==
    IF a.k = "nan" \/ b.k = "nan" THEN NaN
    ELSE IF a.k = "inf" \/ b.k = "inf"
         THEN (IF a.k = "zero" \/ b.k = "zero" THEN NaN ELSE Inf(a.s * b.s))
    ELSE IF a.k = "zero" \/ b.k = "zero" THEN Zero
    ELSE Norm(a.s * b.s, a.e + b.e, Tail(MulMant(a.m, b.m)))

\* The sum of the columns c, of which column f is the first that is not zero.
AddSigned(top, c, f, sg) ==
    Norm(sg, top + 1, CarryFrom([i \in 1..(Limbs + 2) |-> sg * c[i]], Limbs + 2, 0, <<>>))

AddFrom(top, c, f) ==
    IF f = 0 THEN Zero ELSE AddSigned(top, c, f, IF c[f] > 0 THEN 1 ELSE -1)

AddAligned(top, c) == AddFrom(top, c, FirstNonZero(c, 1))

\* a + b for finite non-zero a and b, top the larger exponent.
AddColumns(a, b, top) ==
    AddAligned(top, [i \in 1..(Limbs + 2) |->
                       a.s * Limb(a.m, i - (top - a.e)) + b.s * Limb(b.m, i - (top - b.e))])

\* a + b
FAdd(a, b) ==
    IF a.k = "nan" \/ b.k = "nan" THEN NaN
    ELSE IF a.k = "inf"
         THEN (IF b.k = "inf" /\ b.s # a.s THEN NaN ELSE a)
    ELSE IF b.k = "inf" THEN b
    ELSE IF a.k = "zero" THEN b
    ELSE IF b.k = "zero" THEN a
    ELSE AddColumns(a, b, IF a.e >= b.e THEN a.e ELSE b.e)

\* a - b
FSub(a, b) == FAdd(a, FNeg(b))

\* a < b, a <= b (false when either is NaN)
Negative(d) == d.k \in {"fin", "inf"} /\ d.s = -1
FLt(a, b) == Negative(FSub(a, b))
FLe(a, b) == FLt(a, b) \/ (a.k # "nan" /\ a = b)

ShortMul(x, d) == CarryFrom([i \in 1..Len(x) |-> x[i] * d], Len(x), 0, <<>>)

RECURSIVE Adjust(_, _, _, _, _)
Adjust(q, num, v1, v2, r3) ==
    LET rhat == num - q * v1
    IN  IF rhat < Base /\ q * v2 > rhat * Base + r3
        THEN Adjust(q - 1, num, v1, v2, r3)
        ELSE q

\* One step of the long division of R by V: the quotient limb q and the remainder R,
\* shifted by one limb. R has Limbs + 1 limbs, V has Limbs limbs with
\* V[1] >= Base \div 2, and R < V * Base.
DivStep(R, V) ==
    With(R[1] * Base + R[2], LAMBDA num :
    With(Adjust(IF num \div V[1] >= Base THEN Base - 1 ELSE num \div V[1],
                num, V[1], V[2], R[3]), LAMBDA q1 :
    With(CarryFrom([i \in 1..(Limbs + 1) |->
                      R[i] - q1 * (IF i = 1 THEN 0 ELSE V[i - 1])],
                   Limbs + 1, 0, <<>>), LAMBDA s1 :
      IF s1[1] < 0
      THEN [q |-> q1 - 1,
            R |-> Tail(Tail(CarryFrom([i \in 1..(Limbs + 1) |->
                                         s1[i + 1] + (IF i = 1 THEN 0 ELSE V[i - 1])],
                                      Limbs + 1, 0, <<>>))) \o <<0>>]
      ELSE [q |-> q1, R |-> Tail(Tail(s1)) \o <<0>>])))

\* n quotient limbs by long division by V, of which `step` is the first step.
RECURSIVE DivFrom(_, _, _)
DivFrom(step, V, n) ==
    IF n = 0 THEN <<>> ELSE <<step.q>> \o DivFrom(DivStep(step.R, V), V, n - 1)

\* n quotient limbs of R / V.
DivDigits(R, V, n) == DivFrom(DivStep(R, V), V, n)

\* The quotient limbs of x / y, both scaled by dn so that the divisor's first limb is
\* at least Base \div 2.
DivScaled(x, y, dn) == DivDigits(ShortMul(x, dn), Tail(ShortMul(y, dn)), Limbs + 2)

\* a / b
FDiv(a, b) ==
    IF a.k = "nan" \/ b.k = "nan" THEN NaN
    ELSE IF a.k = "inf" THEN (IF b.k = "inf" THEN NaN ELSE Inf(a.s * b.s))
    ELSE IF b.k = "inf" THEN Zero
    ELSE IF b.k = "zero" THEN (IF a.k = "zero" THEN NaN ELSE Inf(a.s))
    ELSE IF a.k = "zero" THEN Zero
    ELSE Norm(a.s * b.s, a.e - b.e + 1, DivScaled(a.m, b.m, Base \div (b.m[1] + 1)))

RECURSIVE IntLimbs(_)
IntLimbs(n) == IF n = 0 THEN <<>> ELSE IntLimbs(n \div Base) \o <<n % Base>>

\* The integer n as a number.
FromLimbs(s, d) == Norm(s, Len(d), d)
FromInt(n) ==
    IF n = 0 THEN Zero
    ELSE FromLimbs(IF n < 0 THEN -1 ELSE 1, IntLimbs(IF n < 0 THEN -n ELSE n))

\* The decimal literal ip.fn, fd = 10^(number of digits of fn): ip + fn/fd.
Dec(ip, fn, fd) == FAdd(FromInt(ip), FDiv(FromInt(fn), FromInt(fd)))

RECURSIVE IntOf(_, _, _, _)
IntOf(m, e, i, acc) == IF i > e THEN acc ELSE IntOf(m, e, i + 1, acc * Base + Limb(m, i))

\* int(x): truncation towards zero.
TruncInt(a) == IF a.k # "fin" \/ a.e <= 0 THEN 0 ELSE a.s * IntOf(a.m, a.e, 1, 0)

\* int(math.Round(x)): to nearest, halves away from zero.
RoundInt(a) ==
    IF a.k # "fin" \/ a.e < 0 THEN 0
    ELSE a.s * (IntOf(a.m, a.e, 1, 0) + (IF 2 * Limb(a.m, a.e + 1) >= Base THEN 1 ELSE 0))

\* x / n for a small positive integer n, limb by limb.
RECURSIVE ShortDivDigits(_, _, _, _, _)
ShortDivDigits(m, n, i, r, cnt) ==
    IF cnt = 0 THEN <<>>
    ELSE LET v == r * Base + Limb(m, i)
         IN  <<v \div n>> \o ShortDivDigits(m, n, i + 1, v % n, cnt - 1)

FDivInt(a, n) ==
    IF a.k # "fin" THEN a
    ELSE Norm(a.s, a.e, ShortDivDigits(a.m, n, 1, 0, Limbs + 4))

RECURSIVE ISqrtIter(_, _)
ISqrtIter(t, x) ==
    LET y == (x + t \div x) \div 2
    IN  IF y >= x THEN x ELSE ISqrtIter(t, y)

\* The integer square root of t < Base^2.
ISqrt(t) == ISqrtIter(t, Base)

\* Heron's iteration from y, of which y2 is the next iterate, until it no longer moves.
HeronStep(a, y) == FDivInt(FAdd(y, FDiv(a, y)), 2)

RECURSIVE HeronFrom(_, _, _, _)
HeronFrom(a, y, y2, n) ==
    IF n = 0 \/ y2 = y THEN y ELSE HeronFrom(a, y2, HeronStep(a, y2), n - 1)

Heron(a, y, n) == HeronFrom(a, y, HeronStep(a, y), n)

\* math.Sqrt
FSqrt(a) ==
    IF a.k = "nan" \/ (a.k \in {"fin", "inf"} /\ a.s = -1) THEN NaN
    ELSE IF a.k # "fin" THEN a
    ELSE With(FromInt(ISqrt(a.m[1] * Base + a.m[2])), LAMBDA g :
           Heron(a,
                 IF a.e % 2 = 0
                 THEN [g EXCEPT !.e = @ - 1 + a.e \div 2]
                 ELSE [FDiv(g, FromInt(ISqrt(Base))) EXCEPT !.e = @ - 1 + (a.e + 1) \div 2],
                 Limbs + 1))

One == FromInt(1)

\* The limbs of pi = 3.1415 9265 3589 7932 3846 2643 3832 7950 2884 1971 ...
PiLimbs ==
    <<3, 1415, 9265, 3589, 7932, 3846, 2643, 3832, 7950, 2884, 1971,
      6939, 9375, 1058, 2097, 4944, 5923, 781, 6406, 2862, 899>>

\* math.Pi: the number nearest to pi.
Pi == Norm(1, 1, PiLimbs)

PiHalf == FDivInt(Pi, 2)

\* pi/2 in three parts of Limbs - 1 limbs each, for the argument reduction of the
\* trigonometric functions (the products of a quadrant number and a part are exact).
HalfPiLimbs == ShortDivDigits(PiLimbs, 2, 1, 0, Len(PiLimbs))
PiHalfPart(j) ==
    Norm(1, 1 - (j - 1) * (Limbs - 1),
         SubSeq(HalfPiLimbs, (j - 1) * (Limbs - 1) + 1, j * (Limbs - 1)))

\* A term that no longer changes the sum.
Negligible(t, sum) == t.k = "zero" \/ t.e < sum.e - Limbs - 1

\* The alternating power series sum + t1 + t2 + ..., t(i+1) = -t(i) * r2 / ((n+1)(n+2)),
\* summed until the terms no longer change the sum; t is the term after the sum's last.
NextTerm(term, n, r2) == FNeg(FDivInt(FMul(term, r2), (n + 1) * (n + 2)))

RECURSIVE SeriesFrom(_, _, _, _)
SeriesFrom(t, sum, n, r2) ==
    IF Negligible(t, sum) THEN sum
    ELSE SeriesFrom(NextTerm(t, n + 2, r2), FAdd(sum, t), n + 2, r2)

Series(term, sum, n, r2) == SeriesFrom(NextTerm(term, n, r2), sum, n, r2)

SinSmall(r) == IF r.k = "zero" THEN Zero ELSE Series(r, r, 1, FMul(r, r))
CosSmall(r) == Series(One, One, 0, FMul(r, r))

\* The quadrant k and the reduced argument r of x = k * Pi/2 + r, |r| <= Pi/4.
Quadrant(x) == RoundInt(FDiv(x, PiHalf))
ReducedBy(x, k) ==
    With(FSub(x, FMul(k, PiHalfPart(1))), LAMBDA r1 :
    With(FSub(r1, FMul(k, PiHalfPart(2))), LAMBDA r2 :
      FSub(r2, FMul(k, PiHalfPart(3)))))

\* sin(q * Pi/2 + r)
SinAt(q, r) ==
    CASE q = 0 -> SinSmall(r)
      [] q = 1 -> CosSmall(r)
      [] q = 2 -> FNeg(SinSmall(r))
      [] OTHER -> FNeg(CosSmall(r))

\* math.Sin, math.Cos, math.Tan
FSin(x) ==
    IF ~IsFinite(x) THEN NaN
    ELSE With(Quadrant(x), LAMBDA q :
         With(ReducedBy(x, FromInt(q)), LAMBDA r : SinAt(q % 4, r)))

FCos(x) ==
    IF ~IsFinite(x) THEN NaN
    ELSE With(Quadrant(x), LAMBDA q :
         With(ReducedBy(x, FromInt(q)), LAMBDA r : SinAt((q + 1) % 4, r)))

FTan(x) == FDiv(FSin(x), FCos(x))

\* The series t - t^3/3 + t^5/5 - ... of the arctangent, for small t.
\* p is the power of the term after the sum's last, n its divisor.
RECURSIVE AtanFrom(_, _, _, _)
AtanFrom(p, sum, n, t2) ==
    IF Negligible(FDivInt(p, n), sum) THEN sum
    ELSE AtanFrom(FNeg(FMul(p, t2)), FAdd(sum, FDivInt(p, n)), n + 2, t2)

AtanSeries(pow, sum, n, t2) == AtanFrom(FNeg(FMul(pow, t2)), sum, n + 2, t2)

\* atan(t) = 2 atan(t / (1 + sqrt(1 + t^2)))
HalfAngle(t) == With(FSqrt(FAdd(One, FMul(t, t))), LAMBDA root : FDiv(t, FAdd(One, root)))

AtanUnit(t) ==
    \* 0 <= t <= 1
    IF t.k = "zero" THEN Zero
    ELSE With(HalfAngle(t), LAMBDA h1 :
         With(HalfAngle(h1), LAMBDA h2 :
         With(HalfAngle(h2), LAMBDA h :
         With(AtanSeries(h, h, 1, FMul(h, h)), LAMBDA atan : FMul(FromInt(8), atan)))))

\* math.Atan
FAtan(t) ==
    IF t.k = "nan" THEN NaN
    ELSE IF t.k = "zero" THEN Zero
    ELSE IF t.k = "inf" THEN (IF t.s = 1 THEN PiHalf ELSE FNeg(PiHalf))
    ELSE With(FAbs(t), LAMBDA u :
         With(IF FLe(u, One) THEN AtanUnit(u) ELSE FSub(PiHalf, AtanUnit(FDiv(One, u))),
              LAMBDA v : IF t.s = 1 THEN v ELSE FNeg(v)))

\* math.Atan2(y, x)
FAtan2(y, x) ==
    IF y.k = "nan" \/ x.k = "nan" THEN NaN
    ELSE IF y.k = "zero"
         THEN (IF x.k = "zero" \/ x.s = 1 THEN Zero ELSE Pi)
    ELSE IF x.k = "zero" THEN (IF y.s = 1 THEN PiHalf ELSE FNeg(PiHalf))
    ELSE IF x.k = "inf"
         THEN (IF x.s = 1
               THEN (IF y.k = "inf" THEN (IF y.s = 1 THEN FDivInt(Pi, 4) ELSE FNeg(FDivInt(Pi, 4)))
                     ELSE Zero)
               ELSE (IF y.k = "inf"
                     THEN (IF y.s = 1 THEN FMul(FromInt(3), FDivInt(Pi, 4))
                           ELSE FNeg(FMul(FromInt(3), FDivInt(Pi, 4))))
                     ELSE (IF y.s = 1 THEN Pi ELSE FNeg(Pi))))
    ELSE IF y.k = "inf" THEN (IF y.s = 1 THEN PiHalf ELSE FNeg(PiHalf))
    ELSE With(FAtan(FDiv(y, x)), LAMBDA q :
           IF x.s = -1
           THEN (IF q.k = "zero" \/ q.s = -1 THEN FAdd(q, Pi) ELSE FSub(q, Pi))
           ELSE q)

\* math.Pow(x, 1.5)
FPow15(x) == FMul(x, FSqrt(x))

a (+) b == FAdd(a, b)
a (-) b == FSub(a, b)
a (.) b == FMul(a, b)
a (/) b == FDiv(a, b)
Num(n) == FromInt(n)

\* The decimal literal ip.f1f2 in two groups of digits: ip + (f1 + f2/d2)/d1.
Dec2(ip, f1, d1, f2, d2) == Num(ip) (+) ((Num(f1) (+) (Num(f2) (/) Num(d2))) (/) Num(d1))

(***************************************************************************)
(* Ellipsoids and datums (latlon-ellipsoidal-datum.go)                     *)
(***************************************************************************)

Ellipseoid(a, b, f) == [a |-> a, b |-> b, f |-> f]

ellipsoids ==
    [name \in {"WGS84", "Airy1830", "AiryModified", "Bessel1841", "Clarke1866",
               "Clarke1880IGN", "GRS80", "Intl1924", "WGS72"} |->
       CASE name = "WGS84" ->
              Ellipseoid(Num(6378137), Dec(6356752, 314245, 1000000),
                         One (/) Dec(298, 257223563, 1000000000))
         [] name = "Airy1830" ->
              Ellipseoid(Dec(6377563, 396, 1000), Dec(6356256, 909, 1000),
                         One (/) Dec(299, 3249646, 10000000))
         [] name = "AiryModified" ->
              Ellipseoid(Dec(6377340, 189, 1000), Dec(6356034, 448, 1000),
                         One (/) Dec(299, 3249646, 10000000))
         [] name = "Bessel1841" ->
              Ellipseoid(Dec(6377397, 155, 1000), Dec(6356078, 962818, 1000000),
                         One (/) Dec(299, 1528128, 10000000))
         [] name = "Clarke1866" ->
              Ellipseoid(Dec(6378206, 4, 10), Dec(6356583, 8, 10),
                         One (/) Dec(294, 978698214, 1000000000))
         [] name = "Clarke1880IGN" ->
              Ellipseoid(Dec(6378249, 2, 10), Num(6356515),
                         One (/) Dec(293, 466021294, 1000000000))
         [] name = "GRS80" ->
              Ellipseoid(Num(6378137), Dec(6356752, 314140, 1000000),
                         One (/) Dec(298, 257222101, 1000000000))
         [] name = "Intl1924" ->
              Ellipseoid(Num(6378388), Dec(6356911, 946, 1000), One (/) Num(297))
         [] name = "WGS72" ->
              Ellipseoid(Num(6378135), Dec(6356750, 5, 10), One (/) Dec(298, 26, 100))]

Datum(name, ellipsoid, transform) ==
    [Name |-> name, Ellipsoid |-> ellipsoid, Transform |-> transform]

\* The zero value of Datum (an unset Datum field).
NoDatum == Datum("", Ellipseoid(Zero, Zero, Zero), <<Zero, Zero, Zero, Zero, Zero, Zero, Zero>>)

DatumNames ==
    {"ED50", "ETRS89", "Irl1975", "NAD27", "NAD83", "NTF", "OSGB36", "Potsdam",
     "TokyoJapan", "WGS72", "WGS84"}

\* Helmert parameters: t in metres, s in ppm, r in arcseconds: tx ty tz s rx ry rz
\* The package's registry of datums, by name: a variable of the package.
VARIABLE Datums

\* The registry as the package initialises it.
InitialDatums ==
    [name \in DatumNames |->
       CASE name = "ED50" ->
              Datum("ED50", ellipsoids["Intl1924"],
                    <<Dec(89, 5, 10), Dec(93, 8, 10), Dec(123, 1, 10), FNeg(Dec(1, 2, 10)),
                      Zero, Zero, Dec(0, 156, 1000)>>)
         [] name = "ETRS89" ->
              Datum("ETRS89", ellipsoids["GRS80"],
                    <<Zero, Zero, Zero, Zero, Zero, Zero, Zero>>)
         [] name = "Irl1975" ->
              Datum("Irl1975", ellipsoids["AiryModified"],
                    <<FNeg(Dec(482, 530, 1000)), Dec(130, 596, 1000), FNeg(Dec(564, 557, 1000)),
                      FNeg(Dec(8, 150, 1000)), Dec(1, 42, 1000), Dec(0, 214, 1000),
                      Dec(0, 631, 1000)>>)
         [] name = "NAD27" ->
              Datum("NAD27", ellipsoids["Clarke1866"],
                    <<Num(8), Num(-160), Num(-176), Zero, Zero, Zero, Zero>>)
         [] name = "NAD83" ->
              Datum("NAD83", ellipsoids["GRS80"],
                    <<Dec(0, 9956, 10000), FNeg(Dec(1, 9103, 10000)), FNeg(Dec(0, 5215, 10000)),
                      FNeg(Dec(0, 62, 100000)), Dec(0, 25915, 1000000), Dec(0, 9426, 1000000),
                      Dec(0, 11599, 1000000)>>)
         [] name = "NTF" ->
              Datum("NTF", ellipsoids["Clarke1880IGN"],
                    <<Num(168), Num(60), Num(-320), Zero, Zero, Zero, Zero>>)
         [] name = "OSGB36" ->
              Datum("OSGB36", ellipsoids["Airy1830"],
                    <<FNeg(Dec(446, 448, 1000)), Dec(125, 157, 1000), FNeg(Dec(542, 60, 1000)),
                      Dec(20, 4894, 10000), FNeg(Dec(0, 1502, 10000)), FNeg(Dec(0, 2470, 10000)),
                      FNeg(Dec(0, 8421, 10000))>>)
         [] name = "Potsdam" ->
              Datum("Potsdam", ellipsoids["Bessel1841"],
                    <<Num(-582), Num(-105), Num(-414), FNeg(Dec(8, 3, 10)), Dec(1, 4, 100),
                      Dec(0, 35, 100), FNeg(Dec(3, 8, 100))>>)
         [] name = "TokyoJapan" ->
              Datum("TokyoJapan", ellipsoids["Bessel1841"],
                    <<Num(148), Num(-507), Num(-685), Zero, Zero, Zero, Zero>>)
         [] name = "WGS72" ->
              Datum("WGS72", ellipsoids["WGS72"],
                    <<Zero, Zero, FNeg(Dec(4, 5, 10)), FNeg(Dec(0, 22, 100)), Zero, Zero,
                      Dec(0, 554, 1000)>>)
         [] name = "WGS84" ->
              Datum("WGS84", ellipsoids["WGS84"],
                    <<Zero, Zero, Zero, Zero, Zero, Zero, Zero>>)]

\* The package's variables OSGB36 and WGS84: copies of the registry's entries.
\* m[k] of a Go map: the zero value when k is not a key.
MapIndex(m, k) == IF k \in DOMAIN m THEN m[k] ELSE NoDatum

OSGB36 == Datums["OSGB36"]
WGS84 == Datums["WGS84"]

LatLonEllipsoidalDatum(lat, lon, height, datum) ==
    [Lat |-> lat, Lon |-> lon, Height |-> height, Datum |-> datum]

Cartesian(x, y, z, datum) == [X |-> x, Y |-> y, Z |-> z, Datum |-> datum]

(***************************************************************************)
(* Constants of the national grid (osgridref.go)                           *)
(***************************************************************************)

toRadians == Pi (/) Num(180)
toDegrees == Num(180) (/) Pi

\* Airy 1830 major & minor semi-axes
a == Dec(6377563, 396, 1000)
b == Dec(6356256, 909, 1000)

\* NatGrid scale factor on central meridian
F0 == Dec2(0, 99960, 100000, 12717, 100000)

\* NatGrid true origin is 49N, 2W
phi0 == Num(49) (.) toRadians
lambda0 == Num(-2) (.) toRadians

\* northing & easting of true origin, metres
N0 == Num(-100000)
E0 == Num(400000)

\* eccentricity squared
e2 == One (-) ((b (.) b) (/) (a (.) a))

\* n, n^2, n^3
n == (a (-) b) (/) (a (+) b)
n2 == n (.) n
n3 == (n (.) n) (.) n

OsGridRef(easting, northing) == [Easting |-> easting, Northing |-> northing]

(***************************************************************************)
(* Geodetic <-> geocentric conversion and the Helmert transform            *)
(***************************************************************************)

\* LatLonEllipsoidalDatum.ToCartesian
ToCartesian(l) ==
    With4(l.Datum.Ellipsoid, l.Lat (.) toRadians, l.Lon (.) toRadians, l.Height,
          LAMBDA ellipsoid, phi, lambda, h :
    With4(FSin(phi), FCos(phi), FSin(lambda), FCos(lambda),
          LAMBDA sinphi, cosphi, sinlambda, coslambda :
    With((Num(2) (.) ellipsoid.f) (-) (ellipsoid.f (.) ellipsoid.f), LAMBDA eSq :
    With(ellipsoid.a (/) FSqrt(One (-) ((eSq (.) sinphi) (.) sinphi)), LAMBDA nu :
    With3(((nu (+) h) (.) cosphi) (.) coslambda,
          ((nu (+) h) (.) cosphi) (.) sinlambda,
          ((nu (.) (One (-) eSq)) (+) h) (.) sinphi,
          LAMBDA x, y, z :
      Cartesian(x, y, z, l.Datum))))))

\* Cartesian.ToLatLon (Bowring 1985)
CartesianToLatLon(c) ==
    With6(c.X, c.Y, c.Z, c.Datum.Ellipsoid.a, c.Datum.Ellipsoid.b, c.Datum.Ellipsoid.f,
          LAMBDA x, y, z, ea, eb, f :
    With2((Num(2) (.) f) (-) (f (.) f), FSqrt((x (.) x) (+) (y (.) y)), LAMBDA eSq, p :
    With2(eSq (/) (One (-) eSq), FSqrt((p (.) p) (+) (z (.) z)), LAMBDA epsilon2, R :
    With(((eb (.) z) (/) (ea (.) p)) (.) (One (+) ((epsilon2 (.) eb) (/) R)), LAMBDA tanbeta :
    With(tanbeta (/) FSqrt(One (+) (tanbeta (.) tanbeta)), LAMBDA sinbeta :
    With(sinbeta (/) tanbeta, LAMBDA cosbeta :
    With2(IF ~IsNaN(cosbeta)
          THEN FAtan2(z (+) ((((epsilon2 (.) eb) (.) sinbeta) (.) sinbeta) (.) sinbeta),
                      p (-) ((((eSq (.) ea) (.) cosbeta) (.) cosbeta) (.) cosbeta))
          ELSE Zero,
          FAtan2(y, x),
          LAMBDA phi, lambda :
    With2(FSin(phi), FCos(phi), LAMBDA sinphi, cosphi :
    With(ea (/) FSqrt(One (-) ((eSq (.) sinphi) (.) sinphi)), LAMBDA nu :
    With(((p (.) cosphi) (+) (z (.) sinphi)) (-) ((ea (.) ea) (/) nu), LAMBDA h :
      LatLonEllipsoidalDatum(phi (.) toDegrees, lambda (.) toDegrees, h, c.Datum)))))))))))

\* The translation alone, scale and rotations left out.
TranslateOnly(c, t) ==
    Cartesian(t[1] (+) c.X, t[2] (+) c.Y, t[3] (+) c.Z, NoDatum)

\* Cartesian.applyTransform: the result carries no datum.
applyTransform(c, t) ==
    With6(c.X, c.Y, c.Z, t[1], t[2], t[3], LAMBDA x1, y1, z1, tx, ty, tz :
    With4((t[4] (/) Num(1000000)) (+) One,
          (t[5] (/) Num(3600)) (.) toRadians,
          (t[6] (/) Num(3600)) (.) toRadians,
          (t[7] (/) Num(3600)) (.) toRadians,
          LAMBDA s, rx, ry, rz :
    With3(((tx (+) (x1 (.) s)) (-) (y1 (.) rz)) (+) (z1 (.) ry),
          ((ty (+) (x1 (.) rz)) (+) (y1 (.) s)) (-) (z1 (.) rx),
          ((tz (-) (x1 (.) ry)) (+) (y1 (.) rx)) (+) (z1 (.) s),
          LAMBDA x2, y2, z2 :
      Cartesian(x2, y2, z2, NoDatum))))

\* The inverse transform with the negation left out.
NotNegated(t) == t

\* The inverse transform of Cartesian.ConvertDatum: every parameter negated.
NegatedTransform(t) == [i \in 1..7 |-> FNeg(t[i])]

(***************************************************************************)
(* The Transverse Mercator projection of the national grid                 *)
(***************************************************************************)

\* Valid with the upper ends of the extent left out.
ValidStrict(o) ==
    o.Easting >= 0 /\ o.Easting < 700000 /\ o.Northing >= 0 /\ o.Northing < 1300000

\* OsGridRef.Valid
Valid(o) ==
    o.Easting >= 0 /\ o.Easting <= 700000 /\ o.Northing >= 0 /\ o.Northing <= 1300000

\* The quotient of two untyped integer constants, as in (5/4)*n2: an integer.
IntConstQuot(p, q) == p \div q

\* The meridional arc as OsGridRef.ToLatLon computes it.
M_ToLatLon(phi) ==
    With4((((One (+) n) (+) (Num(IntConstQuot(5, 4)) (.) n2))
             (+) (Num(IntConstQuot(5, 4)) (.) n3)) (.) (phi (-) phi0),
          (((((Num(3) (.) n) (+) ((Num(3) (.) n) (.) n))
             (+) (Num(IntConstQuot(21, 8)) (.) n3)))
             (.) FSin(phi (-) phi0)) (.) FCos(phi (+) phi0),
          ((((Num(IntConstQuot(15, 8)) (.) n2) (+) (Num(IntConstQuot(15, 8)) (.) n3)))
             (.) FSin(Num(2) (.) (phi (-) phi0))) (.) FCos(Num(2) (.) (phi (+) phi0)),
          ((Num(IntConstQuot(35, 24)) (.) n3)
             (.) FSin(Num(3) (.) (phi (-) phi0))) (.) FCos(Num(3) (.) (phi (+) phi0)),
          LAMBDA Ma, Mb, Mc, Md :
      (b (.) F0) (.) (((Ma (-) Mb) (+) Mc) (-) Md))

\* The meridional arc as LatLonEllipsoidalDatum.ToOsGridRef computes it.
M_ToOsGridRef(phi) ==
    With4((((One (+) n) (+) (Num(IntConstQuot(5, 4)) (.) n2))
             (+) (Num(IntConstQuot(5, 4)) (.) n3)) (.) (phi (-) phi0),
          (((((Num(3) (.) n) (+) ((Num(3) (.) n) (.) n))
             (+) (Num(IntConstQuot(21, 8)) (.) n3)))
             (.) FSin(phi (-) phi0)) (.) FCos(phi (+) phi0),
          ((((Num(IntConstQuot(15, 8)) (.) n2) (+) (Num(IntConstQuot(15, 8)) (.) n3)))
             (.) FSin(Num(2) (.) (phi (-) phi0))) (.) FCos(Num(2) (.) (phi (+) phi0)),
          ((Num(IntConstQuot(35, 24)) (.) n3)
             (.) FSin(Num(3) (.) (phi (-) phi0))) (.) FCos(Num(3) (.) (phi (+) phi0)),
          LAMBDA Ma, Mb, Mc, Md :
      (b (.) F0) (.) (((Ma (-) Mb) (+) Mc) (-) Md))

\* An int of Go has 64 bits, an integer of the model 32: a reference farther out
\* than 2^31 m carries its northing in two fields, Giga * 10^9 + Northing.
FarRef(e, giga, units) == [Easting |-> e, Northing |-> units, Giga |-> giga]

\* `N := float64(o.Northing)`
Float64OfNorthing(ref) ==
    IF "Giga" \in DOMAIN ref
    THEN (Num(ref.Giga) (.) Num(1000000000)) (+) Num(ref.Northing)
    ELSE Num(ref.Northing)

\* The pass without its `+ phi`: the correction alone instead of the corrected latitude.
LoopPhiCorrectionOnly(N, phi, M) == ((N (-) N0) (-) M) (/) (a (.) F0)

\* One pass of the latitude-recovery loop of OsGridRef.ToLatLon: the new phi.
LoopPhi(N, phi, M) == (((N (-) N0) (-) M) (/) (a (.) F0)) (+) phi

\* The loop's exit test: |N - N0 - M| < 0.00001
Converged(N, M) == FLt(FAbs((N (-) N0) (-) M), One (/) Num(100000))

\* OsGridRef.ToLatLon after the loop: latitude and longitude on OSGB36, in degrees.
InverseSeries(E, phi) ==
    With3(FCos(phi), FSin(phi), E (-) E0, LAMBDA cosphi, sinphi, dE :
    With4((a (.) F0) (/) FSqrt(One (-) ((e2 (.) sinphi) (.) sinphi)),
          ((a (.) F0) (.) (One (-) e2)) (/) FPow15(One (-) ((e2 (.) sinphi) (.) sinphi)),
          FTan(phi),
          dE (.) dE,
          LAMBDA nu, rho, tanphi, dE2 :
    With6((nu (/) rho) (-) One,
          tanphi (.) tanphi,
          One (/) cosphi,
          (nu (.) nu) (.) nu,
          dE2 (.) dE,
          dE2 (.) dE2,
          LAMBDA eta2, tan2phi, secphi, nu3, dE3, dE4 :
    With4(tan2phi (.) tan2phi, (nu3 (.) nu) (.) nu, dE3 (.) dE2, dE4 (.) dE2,
          LAMBDA tan4phi, nu5, dE5, dE6 :
    With3(tan4phi (.) tan2phi, (nu5 (.) nu) (.) nu, dE5 (.) dE2,
          LAMBDA tan6phi, nu7, dE7 :
    With7(tanphi (/) ((Num(2) (.) rho) (.) nu),
          (tanphi (/) ((Num(24) (.) rho) (.) nu3))
            (.) (((Num(5) (+) (Num(3) (.) tan2phi)) (+) eta2)
                   (-) ((Num(9) (.) tan2phi) (.) eta2)),
          (tanphi (/) ((Num(720) (.) rho) (.) nu5))
            (.) ((Num(61) (+) (Num(90) (.) tan2phi)) (+) (Num(45) (.) tan4phi)),
          secphi (/) nu,
          (secphi (/) (Num(6) (.) nu3)) (.) ((nu (/) rho) (+) (Num(2) (.) tan2phi)),
          (secphi (/) (Num(120) (.) nu5))
            (.) ((Num(5) (+) (Num(28) (.) tan2phi)) (+) (Num(24) (.) tan4phi)),
          (secphi (/) (Num(5040) (.) nu7))
            (.) (((Num(61) (+) (Num(662) (.) tan2phi)) (+) (Num(1320) (.) tan4phi))
                   (+) (Num(720) (.) tan6phi)),
          LAMBDA VII, VIII, IX, X, XI, XII, XIIA :
    With2(((phi (-) (VII (.) dE2)) (+) (VIII (.) dE4)) (-) (IX (.) dE6),
          (((lambda0 (+) (X (.) dE)) (-) (XI (.) dE3)) (+) (XII (.) dE5)) (-) (XIIA (.) dE7),
          LAMBDA phi1, lambda :
      LatLonEllipsoidalDatum(phi1 (.) toDegrees, lambda (.) toDegrees, Zero, OSGB36))))))))

\* LatLonEllipsoidalDatum.ToOsGridRef for a point on OSGB36: the forward projection.
Project(point) ==
    With2(point.Lat (.) toRadians, point.Lon (.) toRadians, LAMBDA phi, lambda :
    With4(FCos(phi), FSin(phi), FTan(phi), lambda (-) lambda0,
          LAMBDA cosphi, sinphi, tanphi, dl :
    With6((a (.) F0) (/) FSqrt(One (-) ((e2 (.) sinphi) (.) sinphi)),
          ((a (.) F0) (.) (One (-) e2)) (/) FPow15(One (-) ((e2 (.) sinphi) (.) sinphi)),
          M_ToOsGridRef(phi),
          (cosphi (.) cosphi) (.) cosphi,
          tanphi (.) tanphi,
          dl (.) dl,
          LAMBDA nu, rho, M, cos3phi, tan2phi, dl2 :
    With4((nu (/) rho) (-) One, (cos3phi (.) cosphi) (.) cosphi, tan2phi (.) tan2phi,
          dl2 (.) dl,
          LAMBDA eta2, cos5phi, tan4phi, dl3 :
    With(dl3 (.) dl, LAMBDA dl4 :
    With(dl4 (.) dl, LAMBDA dl5 :
    With(dl5 (.) dl, LAMBDA dl6 :
    With7(M (+) N0,
          ((nu (/) Num(2)) (.) sinphi) (.) cosphi,
          (((nu (/) Num(24)) (.) sinphi) (.) cos3phi)
            (.) ((Num(5) (-) tan2phi) (+) (Num(9) (.) eta2)),
          (((nu (/) Num(720)) (.) sinphi) (.) cos5phi)
            (.) ((Num(61) (-) (Num(58) (.) tan2phi)) (+) tan4phi),
          nu (.) cosphi,
          ((nu (/) Num(6)) (.) cos3phi) (.) ((nu (/) rho) (-) tan2phi),
          ((nu (/) Num(120)) (.) cos5phi)
            (.) ((((Num(5) (-) (Num(18) (.) tan2phi)) (+) tan4phi) (+) (Num(14) (.) eta2))
                   (-) ((Num(58) (.) tan2phi) (.) eta2)),
          LAMBDA I, II, III, IIIA, IV, V, VI :
    With2(((I (+) (II (.) dl2)) (+) (III (.) dl4)) (+) (IIIA (.) dl6),
          ((E0 (+) (IV (.) dl)) (+) (V (.) dl3)) (+) (VI (.) dl5),
          LAMBDA N, E :
      OsGridRef(RoundInt(E), RoundInt(N)))))))))))

(***************************************************************************)
(* ParseOsGridRef, comma-separated form "e,n"                              *)
(***************************************************************************)

RECURSIVE Float32Ulp(_, _)
Float32Ulp(x, p) == IF x < 16777216 * p THEN p ELSE Float32Ulp(x, 2 * p)

\* strconv.ParseFloat(digits, 32) of a decimal integer x: the nearest value with
\* a 24-bit mantissa (ties to even).
ParseFloat32(x) ==
    LET p == Float32Ulp(x, 1)
        q == x \div p
        r == x % p
    IN  IF 2 * r > p \/ (2 * r = p /\ q % 2 = 1) THEN (q + 1) * p ELSE q * p

\* ParseOsGridRef on the text "e,n" (the digits e and n given by their values).
ParseCommaSeparated(e, nn) == OsGridRef(ParseFloat32(e), ParseFloat32(nn))

(***************************************************************************)
(* Texts: a Go string is the sequence of its characters                    *)
(***************************************************************************)

UpperLetters ==
    <<"A", "B", "C", "D", "E", "F", "G", "H", "I", "J", "K", "L", "M",
      "N", "O", "P", "Q", "R", "S", "T", "U", "V", "W", "X", "Y", "Z">>
LowerLetters ==
    <<"a", "b", "c", "d", "e", "f", "g", "h", "i", "j", "k", "l", "m",
      "n", "o", "p", "q", "r", "s", "t", "u", "v", "w", "x", "y", "z">>
DigitChars == <<"0", "1", "2", "3", "4", "5", "6", "7", "8", "9">>

\* The place of ch in chars, 0 when it is not there.
IndexOf(chars, ch) ==
    IF \E i \in 1..Len(chars) : chars[i] = ch
    THEN CHOOSE i \in 1..Len(chars) : chars[i] = ch
    ELSE 0

IsDigit(ch) == IndexOf(DigitChars, ch) > 0
IsUpper(ch) == IndexOf(UpperLetters, ch) > 0
\* \s of Go's regexp
IsSpace(ch) == ch \in {" ", "\t", "\n", "\r", "\f"}

\* s[i:j] of Go, i and j counted from 0.
Slice(s, i, j) == SubSeq(s, i + 1, j)

\* strings.ReplaceAll(s, " ", "")
RemoveSpaces(s) == SelectSeq(s, LAMBDA ch : ch # " ")

\* strings.ToUpper
ToUpper(s) ==
    [i \in 1..Len(s) |->
        IF IndexOf(LowerLetters, s[i]) > 0 THEN UpperLetters[IndexOf(LowerLetters, s[i])]
        ELSE s[i]]

\* Go's / and % on int: the quotient truncated towards zero, the remainder with
\* the sign of the dividend.
GoQuo(x, y) == IF x >= 0 THEN x \div y ELSE -((-x) \div y)
GoRem(x, y) == x - y * GoQuo(x, y)

\* The number a string of digits writes.
RECURSIVE DigitsValue(_)
DigitsValue(ds) ==
    IF ds = <<>> THEN 0
    ELSE 10 * DigitsValue(SubSeq(ds, 1, Len(ds) - 1)) + (IndexOf(DigitChars, ds[Len(ds)]) - 1)

\* %d of a number >= 0
RECURSIVE FormatNat(_)
FormatNat(x) ==
    IF x < 10 THEN <<DigitChars[x + 1]>> ELSE FormatNat(x \div 10) \o <<DigitChars[(x % 10) + 1]>>

\* %d
FormatInt(x) == IF x < 0 THEN <<"-">> \o FormatNat(-x) ELSE FormatNat(x)

\* %0*d: zeros between the sign and the digits up to the width.
RECURSIVE ZeroPadded(_, _)
ZeroPadded(width, ds) == IF Len(ds) >= width THEN ds ELSE ZeroPadded(width, <<"0">> \o ds)

FormatPadded(width, x) ==
    IF x < 0 THEN <<"-">> \o ZeroPadded(width - 1, FormatNat(-x))
    ELSE ZeroPadded(width, FormatNat(x))

(***************************************************************************)
(* ParseOsGridRef and the formatting of an OsGridRef, on texts             *)
(***************************************************************************)

AllDigits(s) == \A i \in 1..Len(s) : IsDigit(s[i])

RECURSIVE SkipSpaces(_)
SkipSpaces(s) == IF s # <<>> /\ IsSpace(s[1]) THEN SkipSpaces(Tail(s)) ELSE s

\* commaSeparatedFormat.FindStringSubmatch(s), `^(\d+),\s*(\d+)$`: the two groups,
\* or the empty sequence when s does not match.
MatchCommaSeparated(s) ==
    With(IndexOf(s, ","), LAMBDA c :
      IF c <= 1 THEN <<>>
      ELSE With2(SubSeq(s, 1, c - 1), SkipSpaces(SubSeq(s, c + 1, Len(s))), LAMBDA m1, m2 :
             IF AllDigits(m1) /\ m2 # <<>> /\ AllDigits(m2) THEN <<m1, m2>> ELSE <<>>))

\* gridRefFormat, `^[A-Z]{2}[0-9]+$`
MatchGridRef(s) ==
    /\ Len(s) >= 3
    /\ IsUpper(s[1]) /\ IsUpper(s[2])
    /\ AllDigits(SubSeq(s, 3, Len(s)))

\* What ParseOsGridRef returns.
Parsed(ref, error) == [ref |-> ref, err |-> error]

\* `if l > 7 { l-- }`: the letters after I move down one.
SkipI(letter) == IF letter > 7 THEN letter - 1 ELSE letter

\* No first letter refused.
AnyFirstLetter(l1) == FALSE

\* `// sanity check`: `l1 < 8 || l1 > 18`
FailsSanityCheck(l1) == l1 < 8 \/ l1 > 18

\* The letter-pair branch of ParseOsGridRef once s has matched gridRefFormat.
ParseLetterPair(s) ==
    With2(IndexOf(UpperLetters, s[1]) - 1, IndexOf(UpperLetters, s[2]) - 1, LAMBDA c1, c2 :
      IF s[1] = "I" \/ s[2] = "I" THEN Parsed(OsGridRef(0, 0), "invalid grid ref format")
      ELSE With2(SkipI(c1), SkipI(c2), LAMBDA l1, l2 :
        IF FailsSanityCheck(l1) THEN Parsed(OsGridRef(0, 0), "invalid grid reference")
        ELSE With3(GoRem(l1 - 2, 5) * 5 + GoRem(l2, 5),
                   (19 - GoQuo(l1, 5) * 5) - GoQuo(l2, 5),
                   Slice(s, 2, Len(s)),
                   LAMBDA e100km, n100km, digits :
          With2(Slice(digits, 0, Len(digits) \div 2),
                Slice(digits, Len(digits) \div 2, Len(digits)),
                LAMBDA e, nn :
            IF Len(e) # Len(nn) THEN Parsed(OsGridRef(0, 0), "invalid grid reference")
            ELSE With2(DigitsValue(Slice(e \o <<"0", "0", "0", "0", "0">>, 0, 5)),
                       DigitsValue(Slice(nn \o <<"0", "0", "0", "0", "0">>, 0, 5)),
                       LAMBDA easting, northing :
                   Parsed(OsGridRef(e100km * 100000 + easting, n100km * 100000 + northing),
                          "nil"))))))

\* ParseOsGridRef(text)
ParseOsGridRefText(text) ==
    With(ToUpper(RemoveSpaces(text)), LAMBDA s :
    With(MatchCommaSeparated(s), LAMBDA matches :
      IF Len(matches) > 0
      THEN Parsed(ParseCommaSeparated(DigitsValue(matches[1]), DigitsValue(matches[2])), "nil")
      ELSE IF ~MatchGridRef(s) THEN Parsed(OsGridRef(0, 0), "invalid grid ref format")
      ELSE ParseLetterPair(s)))

\* `pow` of stringN
RECURSIVE Pow10(_)
Pow10(k) == IF k <= 0 THEN 1 ELSE 10 * Pow10(k - 1)

\* byte(l + 'A') as a one-letter string
LetterOf(code) == IF code \in 0..25 THEN UpperLetters[code + 1] ELSE "?"

\* The letter codes taken as they are.
KeepLetter(letter) == letter

\* `if l > 7 { l++ }`: room for the letter I, which the grid does not use.
MakeRoomForI(letter) == IF letter > 7 THEN letter + 1 ELSE letter

\* OsGridRef.stringN
stringN(o, digits, spaces) ==
    With2(GoQuo(o.Easting, 100000), GoQuo(o.Northing, 100000), LAMBDA e100km, n100km :
    With2((19 - n100km) - GoRem(19 - n100km, 5) + GoQuo(e100km + 10, 5),
          GoRem((19 - n100km) * 5, 25) + GoRem(e100km, 5),
          LAMBDA l1, l2 :
    With3(<<LetterOf(MakeRoomForI(l1)), LetterOf(MakeRoomForI(l2))>>,
          GoQuo(GoRem(o.Easting, 100000), Pow10(5 - GoQuo(digits, 2))),
          GoQuo(GoRem(o.Northing, 100000), Pow10(5 - GoQuo(digits, 2))),
          LAMBDA letterPair, e, nn :
      IF spaces
      THEN letterPair \o <<" ">> \o FormatPadded(GoQuo(digits, 2), e)
                      \o <<" ">> \o FormatPadded(GoQuo(digits, 2), nn)
      ELSE letterPair \o FormatPadded(GoQuo(digits, 2), e)
                      \o FormatPadded(GoQuo(digits, 2), nn))))

\* OsGridRef.StringN, StringNCompact, String, NumericString
StringN(o, digits) == stringN(o, digits, TRUE)
StringNCompact(o, digits) == stringN(o, digits, FALSE)
String(o) == StringN(o, 8)
NumericString(o) == FormatInt(o.Easting) \o <<",">> \o FormatInt(o.Northing)

(***************************************************************************)
(* Degrees as texts (dms.go): Wrap90, Wrap180, ParseDegrees, ParseLatLon   *)
(***************************************************************************)

\* Characters outside ASCII, each under a name: the degree sign, the prime, the
\* double prime, the right single quotation mark.
DegreeSign == "deg"
Prime == "prime"
DoublePrime == "dprime"
RightQuote == "rquote"

\* math.Mod(x, y): x - y * trunc(x / y), NaN when x is not finite or y is zero;
\* x when y is infinite.
Mod(x, y) ==
    IF ~IsFinite(x) \/ IsNaN(y) \/ y = Zero THEN NaN
    ELSE IF ~IsFinite(y) THEN x
    ELSE x (-) (y (.) Num(TruncInt(x (/) y)))

\* Wrap90: a = 90, p = 360
Wrap90(degrees) ==
    IF FLe(Num(-90), degrees) /\ FLe(degrees, Num(90)) THEN degrees
    ELSE (((Num(4) (.) Num(90)) (/) Num(360))
            (.) FAbs(Mod(Mod(degrees (-) (Num(360) (/) Num(4)), Num(360)) (+) Num(360),
                         Num(360)) (-) (Num(360) (/) Num(2))))
         (-) Num(90)

\* Wrap180: a = 180, p = 360
Wrap180(degrees) ==
    IF FLe(Num(-180), degrees) /\ FLe(degrees, Num(180)) THEN degrees
    ELSE Mod(Mod((((Num(2) (.) Num(180)) (.) degrees) (/) Num(360)) (-) (Num(360) (/) Num(2)),
                 Num(360)) (+) Num(360),
             Num(360)) (-) Num(180)

\* strings.TrimSpace
RECURSIVE TrimRight(_)
TrimRight(s) == IF s # <<>> /\ IsSpace(s[Len(s)]) THEN TrimRight(SubSeq(s, 1, Len(s) - 1)) ELSE s
TrimSpace(s) == TrimRight(SkipSpaces(s))

\* A text without its leading sign, and the sign.
Unsigned(s) == IF s # <<>> /\ s[1] \in {"+", "-"} THEN Tail(s) ELSE s
SignOf(s) == IF s # <<>> /\ s[1] = "-" THEN -1 ELSE 1

\* x * 10^k
RECURSIVE Scale10(_, _)
Scale10(x, k) ==
    IF k = 0 THEN x
    ELSE IF k > 0 THEN Scale10(x (.) Num(10), k - 1)
    ELSE Scale10(x (/) Num(10), k + 1)

\* What strconv.ParseFloat and ParseDegrees return: a value and an error.
Float(val, error) == [val |-> val, err |-> error]

\* strconv.ParseFloat(s, 64) of the mantissa ip.fp with the exponent text expo
\* ("" when there is no exponent part).
DecimalFloat(sign, ip, fp, hasExp, expo) ==
    IF ~(AllDigits(ip) /\ AllDigits(fp) /\ Len(ip) + Len(fp) >= 1)
       \/ (hasExp /\ ~(Unsigned(expo) # <<>> /\ AllDigits(Unsigned(expo))))
    THEN Float(Zero, "syntax")
    ELSE IF DigitsValue(Unsigned(expo)) > 308 - Len(ip) /\ SignOf(expo) = 1
    THEN Float(Inf(sign), "range")
    ELSE With(Scale10(Dec(DigitsValue(ip), DigitsValue(fp), Pow10(Len(fp))),
                      SignOf(expo) * DigitsValue(Unsigned(expo))),
              LAMBDA magnitude :
                Float(IF sign = -1 THEN FNeg(magnitude) ELSE magnitude, "nil"))

\* strconv.ParseFloat(s, 64) on decimal texts: "NaN", signed "Inf" and "Infinity"
\* in any case of letters, and [sign] digits [. digits] [e|E [sign] digits].
ParseFloat64(s) ==
    IF ToUpper(s) = <<"N", "A", "N">> THEN Float(NaN, "nil")
    ELSE IF ToUpper(Unsigned(s)) \in {<<"I", "N", "F">>,
                                      <<"I", "N", "F", "I", "N", "I", "T", "Y">>}
    THEN Float(Inf(SignOf(s)), "nil")
    ELSE With2(Unsigned(s), IndexOf(ToUpper(Unsigned(s)), "E"), LAMBDA body, ePos :
         With2(IF ePos = 0 THEN body ELSE SubSeq(body, 1, ePos - 1),
               IF ePos = 0 THEN <<>> ELSE SubSeq(body, ePos + 1, Len(body)),
               LAMBDA mant, expo :
           With(IndexOf(mant, "."), LAMBDA dot :
             DecimalFloat(SignOf(s),
                          IF dot = 0 THEN mant ELSE SubSeq(mant, 1, dot - 1),
                          IF dot = 0 THEN <<>> ELSE SubSeq(mant, dot + 1, Len(mant)),
                          ePos # 0, expo))))

\* separatorChars, `[^0-9.]+`: a character it matches
IsSeparator(ch) == ~IsDigit(ch) /\ ch # "."

\* separatorChars.Split(s, -1): the texts between the runs of separators, `open`
\* the text since the last run, `inRun` whether the last character was in a run.
RECURSIVE SplitFrom(_, _, _)
SplitFrom(s, open, inRun) ==
    IF s = <<>> THEN <<open>>
    ELSE IF IsSeparator(s[1])
    THEN IF inRun THEN SplitFrom(Tail(s), open, TRUE)
         ELSE <<open>> \o SplitFrom(Tail(s), <<>>, TRUE)
    ELSE SplitFrom(Tail(s), Append(open, s[1]), FALSE)

SplitSeparators(s) == SplitFrom(s, <<>>, FALSE)

\* The loop of ParseDegrees over dmsParts from part i: sum and multiplier so far.
RECURSIVE SumParts(_, _, _, _)
SumParts(dmsParts, i, sum, multiplier) ==
    IF i > Len(dmsParts) THEN Float(sum, "nil")
    ELSE IF ParseFloat64(dmsParts[i]).err # "nil" THEN Float(Zero, "invalid degree")
    ELSE SumParts(dmsParts, i + 1, sum (+) (ParseFloat64(dmsParts[i]).val (.) multiplier),
                  multiplier (/) Num(60))

\* ParseDegrees after the sign: s trimmed, not empty.
ParseCompass(s, negative) ==
    With2(negative \/ s[Len(s)] \in {"S", "W"},
          TrimSpace(IF s[Len(s)] \in {"S", "W", "N", "E"} THEN SubSeq(s, 1, Len(s) - 1) ELSE s),
          LAMBDA neg, body :
      With(SplitSeparators(body), LAMBDA parts :
        IF parts[1] = <<>> THEN Float(Zero, "invalid degree")
        ELSE With(SumParts(IF parts[Len(parts)] = <<>>
                           THEN SubSeq(parts, 1, Len(parts) - 1) ELSE parts,
                           1, Zero, One),
                  LAMBDA total :
                    IF total.err # "nil" THEN total
                    ELSE Float(IF neg THEN FNeg(total.val) ELSE total.val, "nil"))))

\* ParseDegrees
ParseDegrees(orig) ==
    With(TrimSpace(orig), LAMBDA s :
      IF ParseFloat64(s).err = "nil" THEN Float(ParseFloat64(s).val, "nil")
      ELSE IF Len(s) = 0 THEN Float(Zero, "invalid degree")
      ELSE With(TrimSpace(Unsigned(s)), LAMBDA rest :
             IF Len(rest) = 0 THEN Float(Zero, "invalid degree")
             ELSE ParseCompass(rest, s[1] = "-")))

\* strings.Split(s, ",")
RECURSIVE SplitComma(_, _)
SplitComma(s, open) ==
    IF s = <<>> THEN <<open>>
    ELSE IF s[1] = "," THEN <<open>> \o SplitComma(Tail(s), <<>>)
    ELSE SplitComma(Tail(s), Append(open, s[1]))

\* ParseLatLon(latLon, height, datum)
ParseLatLon(latLon, height, datum) ==
    With(SplitComma(latLon, <<>>), LAMBDA parts :
      IF Len(parts) # 2 THEN [point |-> LatLonEllipsoidalDatum(Zero, Zero, Zero, NoDatum),
                              err |-> "invalid LatLon"]
      ELSE With2(ParseDegrees(parts[1]), ParseDegrees(parts[2]), LAMBDA lat, lon :
             IF lat.err # "nil" \/ lon.err # "nil"
             THEN [point |-> LatLonEllipsoidalDatum(Zero, Zero, Zero, NoDatum),
                   err |-> "invalid LatLon"]
             ELSE [point |-> LatLonEllipsoidalDatum(Wrap90(lat.val), Wrap180(lon.val), height,
                                                    IF datum.Name = "" THEN WGS84 ELSE datum),
                   err |-> "nil"]))

(***************************************************************************)
(* The program as a state machine.  A behaviour is one call of an entry    *)
(* point (op) on inputs drawn by Init, executed step by step.              *)
(***************************************************************************)

VARIABLES
    op,        \* the entry point exercised
    pc,        \* the position of the running call
    src,       \* RoundTrip: the numbers e, n of the text "e,n" given to ParseOsGridRef
    o,         \* the OsGridRef (receiver of Valid and ToLatLon)
    err,       \* the error returned or the panic raised, "nil" when none
    phi, M,    \* locals of OsGridRef.ToLatLon's latitude-recovery loop
    iters,     \* passes of that loop made so far
    l,         \* the LatLonEllipsoidalDatum at hand (receiver / result)
    toDatum,   \* the argument of LatLonEllipsoidalDatum.ConvertDatum
    cont,      \* where LatLonEllipsoidalDatum.ConvertDatum returns to
    stack,     \* the frames of Cartesian.ConvertDatum, innermost last
    ccont,     \* where the outermost Cartesian.ConvertDatum returns to
    cart,      \* the Cartesian at hand: ToCartesian's result, ConvertDatum's return value
    latlon,    \* the (lat, lon) returned by OsGridRef.ToLatLon
    g2,        \* the OsGridRef returned by ToOsGridRef
    valid,     \* the result of Valid
    c0, d0, p0,          \* inputs: a Cartesian, a Datum, a LatLonEllipsoidalDatum
    key,       \* Lookup: the name the caller indexes Datums with
    other,     \* Concurrent: the goroutine that is not running now, its own variables
    direct, hub, via,    \* c0.ConvertDatum(d0), c0.ConvertDatum(WGS84), hub.ConvertDatum(d0)
    text,      \* Text: the string parsed, or the string NumericString returned
    digits,    \* Text: the digit count given to StringN and StringNCompact
    str,       \* Text: the strings returned by the formatting methods, by method
    height,    \* Text: the height given to ParseLatLon
    written,   \* Text: the sign, numbers, separators and compass letter of the text
    deg,       \* Text: the value and the error returned by ParseDegrees
    vec,       \* Vector: the receiver and the arguments of the Vector3d method
    got,       \* Vector: the value the method returned
    array,     \* Area: the array behind the caller's slices
    calls,     \* Area: the calls of AreaOf in progress, their arguments and locals
    trace      \* the conversions executed so far, in order

gridVars == <<src, o, err, phi, M, iters, latlon, g2, valid>>
convVars == <<l, toDatum, cont, stack, ccont, cart>>
\* The variables of the entry points that read and write texts.
dmsVars == <<height, written, deg>>
textVars == <<text, digits, str, dmsVars>>
\* The inputs of the call, the registry and the texts: no conversion assigns to them.
callVars == <<c0, d0, p0, key, other>>
\* The variables of the vector and polygon entry points.
geomVars == <<vec, got, array, calls>>
inputVars == <<callVars, Datums, textVars, geomVars>>
outVars == <<direct, hub, via>>
vars == <<op, pc, gridVars, convVars, inputVars, outVars, trace>>

ZeroTransform == <<Zero, Zero, Zero, Zero, Zero, Zero, Zero>>
ZeroCartesian == Cartesian(Zero, Zero, Zero, NoDatum)
ZeroLatLon == LatLonEllipsoidalDatum(Zero, Zero, Zero, NoDatum)

\* A frame of Cartesian.ConvertDatum(c, toDatum): its arguments and locals.
Frame(c, d) ==
    [c |-> c, toDatum |-> d, pc |-> "enter", oldCartesian |-> ZeroCartesian,
     transform |-> ZeroTransform, newCartesian |-> ZeroCartesian]

Top == stack[Len(stack)]
SetTop(f) == [stack EXCEPT ![Len(stack)] = f]

(***************************************************************************)
(* Inputs                                                                  *)
(***************************************************************************)

\* The grid references tried divide the extent into GridSteps steps each way.
GridSteps == 2
\* Passes of the latitude-recovery loop after which the model stops following it.
MaxLoopIters == 12

Eastings == {(i * 700000) \div GridSteps : i \in 0..GridSteps}
Northings == {(i * 1300000) \div GridSteps : i \in 0..GridSteps}

\* "e,n" texts: the grid of the extent, the references of the package's tests, and
\* references beyond the extent.
InsideTexts ==
    (Eastings \X Northings) \cup {<<392395, 352997>>, <<651409, 313177>>, <<146760, 28548>>}
OutsideTexts == {<<700001, 0>>, <<0, 1300001>>, <<800000, 1400000>>}

\* Receivers of Valid: around every corner of the extent.
ValidRefs ==
    {OsGridRef(e, nn) : e \in {-1, 0, 1, 350000, 699999, 700000, 700001},
                        nn \in {-1, 0, 1, 650000, 1299999, 1300000, 1300001}}

\* Cartesian points: the examples of the package's documentation.
CartPoints ==
    {<<Dec(4027893, 924, 1000), Dec(307041, 993, 1000), Dec(4919474, 294, 1000)>>,
     <<Dec(3980574, 247, 1000), FNeg(Dec(102, 127, 1000)), Dec(4966830, 65, 1000)>>}

\* Points of the polar axis.
AxisPoints ==
    {<<Zero, Zero, Dec(6356752, 314245, 1000000)>>,
     <<Zero, Zero, FNeg(Dec(6356752, 314245, 1000000))>>,
     <<Zero, Zero, One>>}

\* Geodetic points: Greenwich (the package's example), a point of the Midlands.
GeoPoints ==
    {<<Dec(51, 47788, 100000), FNeg(Dec(0, 147, 100000)), Zero>>,
     <<Num(53), Num(-2), Num(100)>>}

\* Geodetic points taken to another datum and back: a point of the Midlands, the
\* north pole, a point one degree from it.
RoundTripPoints ==
    {<<Num(53), Num(-2), Num(100)>>,
     <<Num(90), Zero, Zero>>,
     <<Num(89), Num(10), Zero>>}

\* The datums of the round trips: the hub, its twin, and the datums with the
\* largest scale and rotations.
RoundTripDatums == {"WGS84", "ETRS89", "OSGB36", "Potsdam", "Irl1975"}

\* The state of a call that has not started: locals and results hold zero values.
Idle ==
    /\ err = "nil"
    /\ phi = Zero /\ M = Zero /\ iters = 0
    /\ l = ZeroLatLon /\ toDatum = NoDatum /\ cont = "none"
    /\ stack = <<>> /\ ccont = "none" /\ cart = ZeroCartesian
    /\ latlon = <<Zero, Zero>> /\ g2 = OsGridRef(0, 0) /\ valid = FALSE
    /\ direct = ZeroCartesian /\ hub = ZeroCartesian /\ via = ZeroCartesian
    /\ trace = <<>>

\* The variables of the other entry points hold zero values.
NoDegrees == height = Zero /\ written = <<>> /\ deg = <<>>
NoText == text = <<>> /\ digits = 0 /\ str = <<>> /\ NoDegrees
NoGeometry == vec = <<>> /\ got = <<>> /\ array = <<>> /\ calls = <<>>
Apart == key = "" /\ other = <<>> /\ NoText /\ NoGeometry

\* ParseOsGridRef("e,n"), ToLatLon, then LatLonEllipsoidalDatum{lat, lon, 0, WGS84}.ToOsGridRef().
InitRoundTrip ==
    /\ Datums = InitialDatums
    /\ Apart
    /\ op = "RoundTrip" /\ pc = "ParseOsGridRef"
    /\ src \in InsideTexts \cup OutsideTexts
    /\ o = OsGridRef(0, 0)
    /\ c0 = ZeroCartesian /\ d0 = NoDatum /\ p0 = ZeroLatLon
    /\ Idle

\* o.Valid()
InitValid ==
    /\ Datums = InitialDatums
    /\ Apart
    /\ op = "Valid" /\ pc = "Valid"
    /\ src = <<0, 0>>
    /\ o \in ValidRefs
    /\ c0 = ZeroCartesian /\ d0 = NoDatum /\ p0 = ZeroLatLon
    /\ Idle

(***************************************************************************)
(* OsGridRef: ParseOsGridRef, Valid, ToLatLon                              *)
(***************************************************************************)

ParseOsGridRef ==
    /\ pc = "ParseOsGridRef"
    /\ o' = ParseCommaSeparated(src[1], src[2])
    /\ err' = "nil"
    /\ pc' = "ToLatLon"
    /\ UNCHANGED <<op, src, phi, M, iters, latlon, g2, valid, convVars, inputVars, outVars, trace>>

DoValid ==
    /\ pc = "Valid"
    /\ valid' = Valid(o)
    /\ pc' = "done"
    /\ UNCHANGED <<op, src, o, err, phi, M, iters, latlon, g2, convVars, inputVars, outVars, trace>>

\* ToLatLon up to the loop: phi := phi0, M := 0.
ToLatLon_Enter ==
    /\ pc = "ToLatLon"
    /\ phi' = phi0
    /\ M' = Zero
    /\ iters' = 0
    /\ pc' = "latloop"
    /\ UNCHANGED <<op, src, o, err, latlon, g2, valid, convVars, inputVars, outVars, trace>>

\* One pass of the loop `for { ... if math.Abs(N-N0-M) < 0.00001 { break } }`.
ToLatLon_Loop ==
    /\ pc = "latloop"
    /\ iters < MaxLoopIters
    /\ phi' = LoopPhi(Float64OfNorthing(o), phi, M)
    /\ M' = M_ToLatLon(phi')
    /\ pc' = IF Converged(Float64OfNorthing(o), M') THEN "series" ELSE "latloop"
    /\ iters' = iters + 1
    /\ UNCHANGED <<op, src, o, err, latlon, g2, valid, convVars, inputVars, outVars, trace>>

\* The series for latitude and longitude on OSGB36, then the call osgb36ToWGS84,
\* which builds the LatLonEllipsoidalDatum and calls its ConvertDatum(WGS84).
ToLatLon_Series ==
    /\ pc = "series"
    /\ l' = InverseSeries(Num(o.Easting), phi)
    /\ toDatum' = WGS84
    /\ cont' = "ToLatLon_ret"
    /\ pc' = "LL_ConvertDatum"
    /\ UNCHANGED <<op, gridVars, stack, ccont, cart, inputVars, outVars, trace>>

\* osgb36ToWGS84 and ToLatLon return converted.Lat, converted.Lon; the caller
\* builds LatLonEllipsoidalDatum{lat, lon, 0, WGS84} for the way back.
ToLatLon_Return ==
    /\ pc = "ToLatLon_ret"
    /\ latlon' = <<l.Lat, l.Lon>>
    /\ l' = LatLonEllipsoidalDatum(l.Lat, l.Lon, Zero, WGS84)
    /\ pc' = "ToOsGridRef"
    /\ UNCHANGED <<op, src, o, err, phi, M, iters, g2, valid, toDatum, cont, stack, ccont,
                   cart, inputVars, outVars, trace>>

(***************************************************************************)
(* LatLonEllipsoidalDatum: ToOsGridRef, ConvertDatum                       *)
(***************************************************************************)

\* No point taken to OSGB36.
NeverConverted(point) == FALSE

\* `point.Datum.Name != OSGB36.Name`
NeedsConversion(point) == point.Datum.Name # OSGB36.Name

\* `point := l; if point.Datum.Name != OSGB36.Name { point = point.ConvertDatum(OSGB36) }`
ToOsGridRef_Enter ==
    /\ pc = "ToOsGridRef"
    /\ IF NeedsConversion(l)
       THEN /\ toDatum' = OSGB36
            /\ cont' = "project"
            /\ pc' = "LL_ConvertDatum"
       ELSE /\ pc' = "project"
            /\ UNCHANGED <<toDatum, cont>>
    /\ UNCHANGED <<op, gridVars, l, stack, ccont, cart, inputVars, outVars, trace>>

\* The projection of the OSGB36 point onto the grid.
ToOsGridRef_Project ==
    /\ pc = "project"
    /\ g2' = Project(l)
    /\ pc' = "done"
    /\ trace' = Append(trace, <<"project", l.Datum.Name>>)
    /\ UNCHANGED <<op, src, o, err, phi, M, iters, latlon, valid, convVars, inputVars, outVars>>

\* The call c.ConvertDatum(d), returning to the position ret.
Call(c, d, ret) ==
    /\ stack' = <<Frame(c, d)>>
    /\ ccont' = ret
    /\ pc' = "CD"
    /\ trace' = Append(trace, <<"ConvertDatum", c.Datum.Name, d.Name>>)

\* oldCartesian := l.ToCartesian()
LL_ToCartesian ==
    /\ pc = "LL_ConvertDatum"
    /\ cart' = ToCartesian(l)
    /\ pc' = "LL_call"
    /\ trace' = Append(trace, <<"ToCartesian", l.Datum.Name>>)
    /\ UNCHANGED <<op, gridVars, l, toDatum, cont, stack, ccont, inputVars, outVars>>

\* newCartesian := oldCartesian.ConvertDatum(toDatum)
LL_Call ==
    /\ pc = "LL_call"
    /\ Call(cart, toDatum, "LL_ToLatLon")
    /\ UNCHANGED <<op, gridVars, l, toDatum, cont, cart, inputVars, outVars>>

\* newLatLon := newCartesian.ToLatLon(); return newLatLon
LL_ToLatLon ==
    /\ pc = "LL_ToLatLon"
    /\ l' = CartesianToLatLon(cart)
    /\ pc' = cont
    /\ trace' = Append(trace, <<"ToLatLon", cart.Datum.Name>>)
    /\ UNCHANGED <<op, gridVars, toDatum, cont, stack, ccont, cart, inputVars, outVars>>

(***************************************************************************)
(* Cartesian.ConvertDatum, one frame per activation                        *)
(***************************************************************************)

\* The frame on top returns v to its caller.
Return(v) ==
    /\ cart' = v
    /\ stack' = SubSeq(stack, 1, Len(stack) - 1)
    /\ pc' = IF Len(stack) = 1 THEN ccont ELSE "CD"

Running == pc = "CD" /\ Len(stack) > 0

\* `if c.Datum.Name == toDatum.Name { return c }`
CD_Identity ==
    /\ Running /\ Top.pc = "enter"
    /\ Top.c.Datum.Name = Top.toDatum.Name
    /\ Return(Top.c)
    /\ trace' = Append(trace, <<"identity", Top.c.Datum.Name, Top.toDatum.Name>>)
    /\ UNCHANGED <<op, gridVars, l, toDatum, cont, ccont, inputVars, outVars>>

\* `if c.Datum.Name == "WGS84" { oldCartesian = c; transform = toDatum.Transform }`
CD_FromWGS84 ==
    /\ Running /\ Top.pc = "enter"
    /\ Top.c.Datum.Name # Top.toDatum.Name
    /\ Top.c.Datum.Name = "WGS84"
    /\ stack' = SetTop([Top EXCEPT !.oldCartesian = Top.c,
                                   !.transform = Top.toDatum.Transform,
                                   !.pc = "apply"])
    /\ UNCHANGED <<op, pc, gridVars, l, toDatum, cont, ccont, cart, inputVars, outVars, trace>>

\* The registry with the parameters of the entry `name` negated where they are.
NegatedInPlace(reg, name) ==
    IF name \in DOMAIN reg
    THEN [reg EXCEPT ![name] = Datum(@.Name, @.Ellipsoid, NegatedTransform(@.Transform))]
    ELSE reg

\* The registry after the loop that negates the parameters: the loop writes the
\* local array `transform`, a copy, and the registry is as it was.
RegistryAfterInverse(reg, name) == reg

\* `else if toDatum.Name == "WGS84" { oldCartesian = c; transform[i] = -c.Datum.Transform[i] }`
CD_ToWGS84 ==
    /\ Running /\ Top.pc = "enter"
    /\ Top.c.Datum.Name # Top.toDatum.Name
    /\ Top.c.Datum.Name # "WGS84"
    /\ Top.toDatum.Name = "WGS84"
    /\ stack' = SetTop([Top EXCEPT !.oldCartesian = Top.c,
                                   !.transform = NegatedTransform(Top.c.Datum.Transform),
                                   !.pc = "apply"])
    /\ Datums' = RegistryAfterInverse(Datums, Top.c.Datum.Name)
    /\ UNCHANGED <<op, pc, gridVars, l, toDatum, cont, ccont, cart, callVars, textVars, outVars,
                   trace, geomVars>>

\* The nested call aimed at the destination of the relaying frame.
RelayTargetSame(f) == f.toDatum

\* The destination of the nested call: `c.ConvertDatum(WGS84)`.
RelayTarget(f) == WGS84

\* `else { oldCartesian = c.ConvertDatum(WGS84) ...`: the nested call.
CD_RelayCall ==
    /\ Running /\ Top.pc = "enter"
    /\ Top.c.Datum.Name # Top.toDatum.Name
    /\ Top.c.Datum.Name # "WGS84"
    /\ Top.toDatum.Name # "WGS84"
    /\ stack' = Append(SetTop([Top EXCEPT !.pc = "relay"]), Frame(Top.c, RelayTarget(Top)))
    /\ UNCHANGED <<op, pc, gridVars, l, toDatum, cont, ccont, cart, inputVars, outVars, trace>>

\* The relaying frame transforming the receiver itself, the hub left out.
RelaySourceDirect(f, returned) == f.c

\* What the relaying frame takes as oldCartesian: the nested call's return value.
RelaySource(f, returned) == returned

\* The relaying frame applying the parameters of the source datum.
RelayTransformOfSource(f) == f.c.Datum.Transform

\* The parameters the relaying frame applies: `transform = toDatum.Transform`.
RelayTransform(f) == f.toDatum.Transform

\* `... oldCartesian = <returned>; transform = toDatum.Transform }`
CD_RelayReturn ==
    /\ Running /\ Top.pc = "relay"
    /\ stack' = SetTop([Top EXCEPT !.oldCartesian = RelaySource(Top, cart),
                                   !.transform = RelayTransform(Top),
                                   !.pc = "apply"])
    /\ UNCHANGED <<op, pc, gridVars, l, toDatum, cont, ccont, cart, inputVars, outVars, trace>>

\* `newCartesian := oldCartesian.applyTransform(transform)`
CD_Apply ==
    /\ Running /\ Top.pc = "apply"
    /\ stack' = SetTop([Top EXCEPT !.newCartesian = applyTransform(Top.oldCartesian, Top.transform),
                                   !.pc = "tag"])
    /\ trace' = Append(trace, <<"applyTransform", Top.oldCartesian.Datum.Name, Top.toDatum.Name>>)
    /\ UNCHANGED <<op, pc, gridVars, l, toDatum, cont, ccont, cart, inputVars, outVars>>

\* The assignment of the tag left out.
Untagged(c, d) == c

\* `newCartesian.Datum = toDatum`
Tagged(c, d) == [c EXCEPT !.Datum = d]

CD_Tag ==
    /\ Running /\ Top.pc = "tag"
    /\ stack' = SetTop([Top EXCEPT !.newCartesian = Tagged(Top.newCartesian, Top.toDatum),
                                   !.pc = "return"])
    /\ UNCHANGED <<op, pc, gridVars, l, toDatum, cont, ccont, cart, inputVars, outVars, trace>>

\* `return newCartesian`
CD_Return ==
    /\ Running /\ Top.pc = "return"
    /\ Return(Top.newCartesian)
    /\ UNCHANGED <<op, gridVars, l, toDatum, cont, ccont, inputVars, outVars, trace>>

(***************************************************************************)
(* The grid reference specification                                        *)
(***************************************************************************)

InitGrid == InitRoundTrip \/ InitValid

NextGrid ==
    \/ ParseOsGridRef
    \/ DoValid
    \/ ToLatLon_Enter
    \/ ToLatLon_Loop
    \/ ToLatLon_Series
    \/ ToLatLon_Return
    \/ ToOsGridRef_Enter
    \/ ToOsGridRef_Project
    \/ LL_ToCartesian
    \/ LL_Call
    \/ LL_ToLatLon
    \/ CD_FromWGS84
    \/ CD_ToWGS84
    \/ CD_Apply
    \/ CD_Tag
    \/ CD_Return

SpecGrid == InitGrid /\ [][NextGrid]_vars

(***************************************************************************)
(* Callers of the datum engine                                             *)
(***************************************************************************)

\* c0.ConvertDatum(d0), then c0.ConvertDatum(WGS84).ConvertDatum(d0)
InitCartConvert ==
    /\ Datums = InitialDatums
    /\ Apart
    /\ op = "CartConvert" /\ pc = "direct"
    /\ src = <<0, 0>> /\ o = OsGridRef(0, 0)
    /\ c0 \in {Cartesian(pt[1], pt[2], pt[3], Datums[dn]) : pt \in CartPoints, dn \in DatumNames}
    /\ d0 \in {Datums[dn] : dn \in DatumNames}
    /\ p0 = ZeroLatLon
    /\ Idle

\* p0.ConvertDatum(d0), d0 the datum of p0 or one of the package's two datum variables
InitLLConvert ==
    /\ Datums = InitialDatums
    /\ Apart
    /\ op = "LLConvert" /\ pc = "LLConvert"
    /\ src = <<0, 0>> /\ o = OsGridRef(0, 0)
    /\ c0 = ZeroCartesian
    /\ p0 \in {LatLonEllipsoidalDatum(g[1], g[2], g[3], Datums[dn]) :
                 g \in GeoPoints, dn \in DatumNames}
    /\ d0 \in {p0.Datum, WGS84, OSGB36}
    /\ Idle

\* c0.ToLatLon()
InitCartToLatLon ==
    /\ Datums = InitialDatums
    /\ Apart
    /\ op = "CartToLatLon" /\ pc = "CartToLatLon"
    /\ src = <<0, 0>> /\ o = OsGridRef(0, 0)
    /\ c0 \in {Cartesian(pt[1], pt[2], pt[3], d) :
                 pt \in CartPoints \cup AxisPoints, d \in {WGS84, OSGB36}}
    /\ d0 = NoDatum /\ p0 = ZeroLatLon
    /\ Idle

CC_Direct ==
    /\ op = "CartConvert" /\ pc = "direct"
    /\ Call(c0, d0, "direct_ret")
    /\ UNCHANGED <<op, gridVars, l, toDatum, cont, cart, inputVars, outVars>>

CC_Hub ==
    /\ pc = "direct_ret"
    /\ direct' = cart
    /\ Call(c0, WGS84, "hub_ret")
    /\ UNCHANGED <<op, gridVars, l, toDatum, cont, cart, inputVars, hub, via>>

CC_Via ==
    /\ pc = "hub_ret"
    /\ hub' = cart
    /\ Call(cart, d0, "via_ret")
    /\ UNCHANGED <<op, gridVars, l, toDatum, cont, cart, inputVars, direct, via>>

CC_Done ==
    /\ pc = "via_ret"
    /\ via' = cart
    /\ pc' = "done"
    /\ UNCHANGED <<op, gridVars, convVars, inputVars, direct, hub, trace>>

LLC_Call ==
    /\ pc = "LLConvert"
    /\ l' = p0
    /\ toDatum' = d0
    /\ cont' = "done"
    /\ pc' = "LL_ConvertDatum"
    /\ UNCHANGED <<op, gridVars, stack, ccont, cart, inputVars, outVars, trace>>

\* p0.ConvertDatum(d0).ConvertDatum(p0.Datum)
InitLLRoundTrip ==
    /\ Datums = InitialDatums
    /\ Apart
    /\ op = "LLRoundTrip" /\ pc = "LLRoundTrip"
    /\ src = <<0, 0>> /\ o = OsGridRef(0, 0)
    /\ c0 = ZeroCartesian
    /\ p0 \in {LatLonEllipsoidalDatum(g[1], g[2], g[3], Datums[dn]) :
                 g \in RoundTripPoints, dn \in RoundTripDatums}
    /\ d0 \in {Datums[dn] : dn \in RoundTripDatums}
    /\ Idle

RT_There ==
    /\ pc = "LLRoundTrip"
    /\ l' = p0
    /\ toDatum' = d0
    /\ cont' = "rt_back"
    /\ pc' = "LL_ConvertDatum"
    /\ UNCHANGED <<op, gridVars, stack, ccont, cart, inputVars, outVars, trace>>

\* The receiver of the second call is the result of the first.
RT_Back ==
    /\ pc = "rt_back"
    /\ toDatum' = p0.Datum
    /\ cont' = "done"
    /\ pc' = "LL_ConvertDatum"
    /\ UNCHANGED <<op, gridVars, l, stack, ccont, cart, inputVars, outVars, trace>>

CTL_Call ==
    /\ pc = "CartToLatLon"
    /\ l' = CartesianToLatLon(c0)
    /\ pc' = "done"
    /\ trace' = Append(trace, <<"ToLatLon", c0.Datum.Name>>)
    /\ UNCHANGED <<op, gridVars, toDatum, cont, stack, ccont, cart, inputVars, outVars>>

(***************************************************************************)
(* The datum specification                                                 *)
(***************************************************************************)

InitDatum == InitCartConvert \/ InitLLConvert \/ InitCartToLatLon \/ InitLLRoundTrip

NextDatum ==
    \/ CC_Direct
    \/ CC_Hub
    \/ CC_Via
    \/ CC_Done
    \/ LLC_Call
    \/ CTL_Call
    \/ RT_There
    \/ RT_Back
    \/ LL_ToCartesian
    \/ LL_Call
    \/ LL_ToLatLon
    \/ CD_Identity
    \/ CD_FromWGS84
    \/ CD_ToWGS84
    \/ CD_RelayCall
    \/ CD_RelayReturn
    \/ CD_Apply
    \/ CD_Tag
    \/ CD_Return

SpecDatum == InitDatum /\ [][NextDatum]_vars

\* The steps of the calls of Cartesian.ConvertDatum but for the Helmert transform.
CallSteps ==
    \/ CC_Direct
    \/ CC_Hub
    \/ CC_Via
    \/ CC_Done
    \/ CD_Identity
    \/ CD_FromWGS84
    \/ CD_ToWGS84
    \/ CD_RelayCall
    \/ CD_RelayReturn
    \/ CD_Tag
    \/ CD_Return

\* The calls of Cartesian.ConvertDatum alone.
NextCartConvert == CallSteps \/ CD_Apply

\* WF_vars(CD_Apply), the condition that enables the step written out.
ApplyFair == []<>~(Running /\ Top.pc = "apply") \/ []<><<CD_Apply>>_vars

\* A call that has a step to take takes it: the code is sequential.
SpecCartConvert ==
    InitCartConvert /\ [][NextCartConvert]_vars /\ WF_vars(CallSteps) /\ ApplyFair

(***************************************************************************)
(* References far outside the extent                                       *)
(***************************************************************************)

\* Northings of 10^12 to 4 * 10^15 m either way, and eastings beside the extent.
FarRefs ==
    {FarRef(e, giga, 0) : e \in {-1, 700001},
                          giga \in {-4000000, -1000000, -1000, 1000, 1000000, 4000000}}

\* o.ToLatLon()
InitFar ==
    /\ Datums = InitialDatums
    /\ Apart
    /\ op = "ToLatLon" /\ pc = "ToLatLon"
    /\ src = <<0, 0>>
    /\ o \in FarRefs
    /\ c0 = ZeroCartesian /\ d0 = NoDatum /\ p0 = ZeroLatLon
    /\ Idle

NextFar ==
    \/ ToLatLon_Enter
    \/ ToLatLon_Loop
    \/ ToLatLon_Series
    \/ LL_ToCartesian
    \/ LL_Call
    \/ LL_ToLatLon
    \/ CD_ToWGS84
    \/ CD_Apply
    \/ CD_Tag
    \/ CD_Return
    \/ ToLatLon_Return

SpecFar == InitFar /\ [][NextFar]_vars

(***************************************************************************)
(* Points of several datums projected onto the grid                        *)
(***************************************************************************)

\* The datums of the receivers: the grid's own, the hub, and two others.
ProjectedDatums == {"OSGB36", "WGS84", "ED50", "Irl1975"}

\* Receivers of ToOsGridRef: points of Great Britain.
ProjectedPoints ==
    GeoPoints \cup {<<Dec(52, 65798, 100000), Dec(1, 71605, 100000), Zero>>}

\* p0.ToOsGridRef(); the method's copy of the receiver is l.
InitToOsGridRef ==
    /\ Datums = InitialDatums
    /\ Apart
    /\ op = "ToOsGridRef" /\ pc = "ToOsGridRef"
    /\ src = <<0, 0>> /\ o = OsGridRef(0, 0)
    /\ c0 = ZeroCartesian /\ d0 = NoDatum
    /\ p0 \in {LatLonEllipsoidalDatum(g[1], g[2], g[3], Datums[dn]) :
                 g \in ProjectedPoints, dn \in ProjectedDatums}
    /\ l = p0
    /\ err = "nil"
    /\ phi = Zero /\ M = Zero /\ iters = 0
    /\ toDatum = NoDatum /\ cont = "none"
    /\ stack = <<>> /\ ccont = "none" /\ cart = ZeroCartesian
    /\ latlon = <<Zero, Zero>> /\ g2 = OsGridRef(0, 0) /\ valid = FALSE
    /\ direct = ZeroCartesian /\ hub = ZeroCartesian /\ via = ZeroCartesian
    /\ trace = <<>>

NextProject ==
    \/ ToOsGridRef_Enter
    \/ ToOsGridRef_Project
    \/ LL_ToCartesian
    \/ LL_Call
    \/ LL_ToLatLon
    \/ CD_FromWGS84
    \/ CD_ToWGS84
    \/ CD_RelayCall
    \/ CD_RelayReturn
    \/ CD_Apply
    \/ CD_Tag
    \/ CD_Return

SpecProject == InitToOsGridRef /\ [][NextProject]_vars

(***************************************************************************)
(* The registry indexed by the caller                                      *)
(***************************************************************************)

\* Names given to the registry: three of its keys, and a name it does not have.
LookupKeys == {"WGS84", "OSGB36", "ED50", "OSGB37"}

\* p0.ConvertDatum(Datums[key])
InitLookup ==
    /\ Datums = InitialDatums
    /\ op = "Lookup" /\ pc = "lookup"
    /\ key \in LookupKeys /\ other = <<>>
    /\ NoGeometry
    /\ NoText
    /\ src = <<0, 0>> /\ o = OsGridRef(0, 0)
    /\ c0 = ZeroCartesian /\ d0 = NoDatum
    /\ p0 \in {LatLonEllipsoidalDatum(g[1], g[2], g[3], Datums[dn]) :
                 g \in GeoPoints, dn \in {"WGS84", "OSGB36", "ED50"}}
    /\ Idle

LK_Convert ==
    /\ pc = "lookup"
    /\ l' = p0
    /\ toDatum' = MapIndex(Datums, key)
    /\ cont' = "done"
    /\ pc' = "LL_ConvertDatum"
    /\ UNCHANGED <<op, gridVars, stack, ccont, cart, inputVars, outVars, trace>>

NextLookup ==
    \/ LK_Convert
    \/ LL_ToCartesian
    \/ LL_Call
    \/ LL_ToLatLon
    \/ CD_Identity
    \/ CD_FromWGS84
    \/ CD_ToWGS84
    \/ CD_RelayCall
    \/ CD_RelayReturn
    \/ CD_Apply
    \/ CD_Tag
    \/ CD_Return

SpecLookup == InitLookup /\ [][NextLookup]_vars

(***************************************************************************)
(* Two goroutines converting at once                                       *)
(***************************************************************************)

\* The variables a goroutine running c0.ConvertDatum(d0) has of its own.
Context ==
    [op |-> op, pc |-> pc, stack |-> stack, ccont |-> ccont, cart |-> cart,
     c0 |-> c0, d0 |-> d0, direct |-> direct]

\* The conversions of the two goroutines: each pairs a receiver with a destination.
ConcurrentCalls ==
    {<<Cartesian(pt[1], pt[2], pt[3], Datums[pr[1]]), Datums[pr[2]]>> :
        pt \in CartPoints,
        pr \in {<<"OSGB36", "ED50">>, <<"OSGB36", "WGS84">>,
                <<"WGS84", "OSGB36">>, <<"ED50", "ED50">>}}

\* go c0.ConvertDatum(d0); go other.c0.ConvertDatum(other.d0)
InitConcurrent ==
    /\ Datums = InitialDatums
    /\ op = "Concurrent" /\ pc = "direct"
    /\ key = ""
    /\ NoGeometry
    /\ NoText
    /\ src = <<0, 0>> /\ o = OsGridRef(0, 0)
    /\ p0 = ZeroLatLon
    /\ Idle
    /\ \E mine \in ConcurrentCalls, theirs \in ConcurrentCalls :
          /\ mine[1].X = theirs[1].X => mine[2].Name # theirs[2].Name
          /\ c0 = mine[1] /\ d0 = mine[2]
          /\ other = [op |-> "Concurrent", pc |-> "direct", stack |-> <<>>,
                      ccont |-> "none", cart |-> ZeroCartesian,
                      c0 |-> theirs[1], d0 |-> theirs[2], direct |-> ZeroCartesian]

\* The scheduler takes the running goroutine off and puts the other one on.
Switch ==
    /\ op = "Concurrent"
    /\ other.pc # "done"
    /\ other' = Context
    /\ op' = other.op /\ pc' = other.pc /\ stack' = other.stack
    /\ ccont' = other.ccont /\ cart' = other.cart
    /\ c0' = other.c0 /\ d0' = other.d0 /\ direct' = other.direct
    /\ UNCHANGED <<gridVars, l, toDatum, cont, p0, key, Datums, textVars, hub, via, trace, geomVars>>

\* result := c0.ConvertDatum(d0)
CO_Call ==
    /\ op = "Concurrent" /\ pc = "direct"
    /\ Call(c0, d0, "co_ret")
    /\ UNCHANGED <<op, gridVars, l, toDatum, cont, cart, inputVars, outVars>>

CO_Done ==
    /\ op = "Concurrent" /\ pc = "co_ret"
    /\ direct' = cart
    /\ pc' = "done"
    /\ UNCHANGED <<op, gridVars, convVars, inputVars, hub, via, trace>>

NextConcurrent ==
    \/ Switch
    \/ CO_Call
    \/ CO_Done
    \/ CD_Identity
    \/ CD_FromWGS84
    \/ CD_ToWGS84
    \/ CD_RelayCall
    \/ CD_RelayReturn
    \/ CD_Apply
    \/ CD_Tag
    \/ CD_Return

SpecConcurrent == InitConcurrent /\ [][NextConcurrent]_vars

(***************************************************************************)
(* Grid references as texts                                                *)
(***************************************************************************)

\* Letter-pair texts: first letters of every kind (in the grid, beside it, I, Z,
\* lower case), second letters from each row of the square, digit groups of one
\* to six digits each way, written with and without spaces.
FirstLetters == {"H", "J", "L", "N", "O", "Q", "S", "T", "U", "Z", "I", "s"}
SecondLetters == {"A", "E", "I", "J", "V", "Z", "w"}
DigitGroups ==
    {<<<<"1">>, <<"2">>>>, <<<<"0">>, <<"0">>>>,
     <<<<"0", "9", "5">>, <<"2", "5", "5">>>>,
     <<<<"0", "8", "4", "9", "0">>, <<"2", "5", "5", "8", "0">>>>,
     <<<<"4", "6", "7", "6", "0", "7">>, <<"2", "8", "5", "4", "8", "9">>>>}

LetterPairTexts ==
    {<<a1, a2>> \o dg[1] \o dg[2] : a1 \in FirstLetters, a2 \in SecondLetters, dg \in DigitGroups}
    \cup {<<"T", "G", " ", "5", "1", "4", "0", "9", " ", "1", "3", "1", "7", "7">>,
          <<"S", "U", " ", "0", " ", "0">>,
          <<"S", "W", " ", "4", "6", "7", "6", " ", "2", "8", "5", "4">>}

\* Texts ParseOsGridRef is to refuse: the cases of the package's test, one space
\* between the letters, nothing after the letters, nothing at all.
MalformedTexts ==
    {<<"S", "0", "9", "5", "2", "5", "5">>,
     <<"S", "J", "9", "5", "2", "5", "5">>,
     <<"S", "J", "9", "5", "X", "2", "5", "5">>,
     <<"S", "J", "9", "5", "2", "5", "-">>,
     <<"S", " ", "0", "9", " ", "2", "5">>,
     <<"S", "J", " ", "1", "2", "3">>,
     <<"S", "J">>,
     <<>>}

\* References formatted: those of the package's example and tests, the corners of
\* the extent, offsets that end in 5 or 9 (where rounding and truncating differ).
FormatRefs ==
    {OsGridRef(146760, 28548), OsGridRef(651409, 313177), OsGridRef(409500, 425500),
     OsGridRef(0, 0), OsGridRef(699999, 1299999), OsGridRef(700000, 1300000),
     OsGridRef(99995, 500005), OsGridRef(499999, 999999), OsGridRef(350955, 1205095),
     OsGridRef(500000, 499999), OsGridRef(300009, 800090), OsGridRef(250000, 1000000)}

DigitCounts == {2, 4, 6, 8, 10}

\* References formatted and read back: the south-west corner of every 100 km
\* square of the extent, its edges included, and a point inside each of four.
ReadBackRefs ==
    {OsGridRef(e * 100000, nn * 100000) : e \in 0..7, nn \in 0..13}
      \cup {OsGridRef(651409, 313177), OsGridRef(441000, 1141000),
            OsGridRef(699999, 1299999), OsGridRef(123456, 987654)}

\* References written as "e,n": inside the extent, beyond it, at and beyond the
\* integers a float32 holds exactly.
NumericRefs ==
    {OsGridRef(e, nn) : e \in {0, 7, 146760, 651409, 700000, 16777216, 16777217},
                        nn \in {0, 28548, 313177, 1300000, 16777216, 33554434, 33554435}}

\* o, err := ParseOsGridRef(text); str := o.StringN(len(orig) - 2), as the test does
InitParseText ==
    /\ Datums = InitialDatums
    /\ key = "" /\ other = <<>>
    /\ NoGeometry
    /\ op = "ParseText" /\ pc = "ParseOsGridRefText"
    /\ text \in LetterPairTexts \cup MalformedTexts
    /\ digits = 0 /\ str = <<>> /\ NoDegrees
    /\ src = <<0, 0>> /\ o = OsGridRef(0, 0)
    /\ c0 = ZeroCartesian /\ d0 = NoDatum /\ p0 = ZeroLatLon
    /\ Idle

\* o.StringN(digits), o.StringNCompact(digits), o.String()
InitFormat ==
    /\ Datums = InitialDatums
    /\ key = "" /\ other = <<>>
    /\ NoGeometry
    /\ op = "Format" /\ pc = "StringN"
    /\ text = <<>> /\ str = <<>> /\ NoDegrees
    /\ digits \in DigitCounts
    /\ src = <<0, 0>>
    /\ o \in FormatRefs
    /\ c0 = ZeroCartesian /\ d0 = NoDatum /\ p0 = ZeroLatLon
    /\ Idle

\* ParseOsGridRef(o.NumericString())
InitNumeric ==
    /\ Datums = InitialDatums
    /\ key = "" /\ other = <<>>
    /\ NoGeometry
    /\ op = "Numeric" /\ pc = "NumericString"
    /\ NoText
    /\ src = <<0, 0>>
    /\ o \in NumericRefs
    /\ c0 = ZeroCartesian /\ d0 = NoDatum /\ p0 = ZeroLatLon
    /\ Idle

\* ParseOsGridRef(o.StringN(10))
InitReadBack ==
    /\ Datums = InitialDatums
    /\ key = "" /\ other = <<>>
    /\ NoGeometry
    /\ op = "ReadBack" /\ pc = "StringN"
    /\ text = <<>> /\ str = <<>> /\ NoDegrees
    /\ digits = 10
    /\ src = <<0, 0>>
    /\ o \in ReadBackRefs
    /\ c0 = ZeroCartesian /\ d0 = NoDatum /\ p0 = ZeroLatLon
    /\ Idle

PT_Parse ==
    /\ op = "ParseText" /\ pc = "ParseOsGridRefText"
    /\ o' = ParseOsGridRefText(text).ref
    /\ err' = ParseOsGridRefText(text).err
    /\ pc' = IF ParseOsGridRefText(text).err = "nil" THEN "StringN" ELSE "done"
    /\ UNCHANGED <<op, src, phi, M, iters, latlon, g2, valid, convVars, inputVars, outVars, trace>>

PT_StringN ==
    /\ op = "ParseText" /\ pc = "StringN"
    /\ str' = ("StringN" :> StringN(o, Len(RemoveSpaces(text)) - 2))
    /\ pc' = "done"
    /\ UNCHANGED <<op, gridVars, convVars, callVars, Datums, text, digits, dmsVars, outVars, trace, geomVars>>

FM_StringN ==
    /\ op = "Format" /\ pc = "StringN"
    /\ str' = ("StringN" :> StringN(o, digits))
    /\ pc' = "StringNCompact"
    /\ UNCHANGED <<op, gridVars, convVars, callVars, Datums, text, digits, dmsVars, outVars, trace, geomVars>>

FM_StringNCompact ==
    /\ op = "Format" /\ pc = "StringNCompact"
    /\ str' = str @@ ("StringNCompact" :> StringNCompact(o, digits))
    /\ pc' = "String"
    /\ UNCHANGED <<op, gridVars, convVars, callVars, Datums, text, digits, dmsVars, outVars, trace, geomVars>>

FM_String ==
    /\ op = "Format" /\ pc = "String"
    /\ str' = str @@ ("String" :> String(o))
    /\ pc' = "done"
    /\ UNCHANGED <<op, gridVars, convVars, callVars, Datums, text, digits, dmsVars, outVars, trace, geomVars>>

\* fmt.Sprintf("%d,%d", ...); the caller may write a space after the comma.
NM_NumericString ==
    /\ op = "Numeric" /\ pc = "NumericString"
    /\ \E space \in {<<>>, <<" ">>} :
          text' = FormatInt(o.Easting) \o <<",">> \o space \o FormatInt(o.Northing)
    /\ str' = ("NumericString" :> NumericString(o))
    /\ pc' = "ParseOsGridRefText"
    /\ UNCHANGED <<op, gridVars, convVars, callVars, Datums, digits, dmsVars, outVars, trace, geomVars>>

NM_Parse ==
    /\ op = "Numeric" /\ pc = "ParseOsGridRefText"
    /\ g2' = ParseOsGridRefText(text).ref
    /\ err' = ParseOsGridRefText(text).err
    /\ pc' = "done"
    /\ UNCHANGED <<op, src, o, phi, M, iters, latlon, valid, convVars, inputVars, outVars, trace>>

RB_StringN ==
    /\ op = "ReadBack" /\ pc = "StringN"
    /\ text' = StringN(o, digits)
    /\ pc' = "ParseOsGridRefText"
    /\ UNCHANGED <<op, gridVars, convVars, callVars, Datums, digits, str, dmsVars, outVars, trace, geomVars>>

RB_Parse ==
    /\ op = "ReadBack" /\ pc = "ParseOsGridRefText"
    /\ g2' = ParseOsGridRefText(text).ref
    /\ err' = ParseOsGridRefText(text).err
    /\ pc' = "done"
    /\ UNCHANGED <<op, src, o, phi, M, iters, latlon, valid, convVars, inputVars, outVars, trace>>

InitText == InitParseText \/ InitFormat \/ InitNumeric \/ InitReadBack

NextText ==
    \/ PT_Parse
    \/ PT_StringN
    \/ FM_StringN
    \/ FM_StringNCompact
    \/ FM_String
    \/ NM_NumericString
    \/ NM_Parse
    \/ RB_StringN
    \/ RB_Parse

SpecText == InitText /\ [][NextText]_vars

(***************************************************************************)
(* Degrees as texts                                                        *)
(***************************************************************************)

\* Numbers of degrees, minutes and seconds, each as it is written and as it is
\* read: the readings of the package's test and two short ones.
DmsNumbers ==
    {<<<<<<"4", "5", ".", "7", "6", "2", "6", "0">>, Dec(45, 7626, 10000)>>>>,
     <<<<<<"4", "5">>, Num(45)>>, <<<<"4", "5", ".", "7", "5", "6">>, Dec(45, 756, 1000)>>>>,
     <<<<<<"4", "5">>, Num(45)>>, <<<<"4", "5">>, Num(45)>>,
       <<<<"4", "5", ".", "3", "6">>, Dec(45, 36, 100)>>>>,
     <<<<<<"0", "0", "0">>, Zero>>, <<<<"0", "0">>, Zero>>, <<<<"0", "0", ".", "0">>, Zero>>>>,
     <<<<<<"5">>, Num(5)>>, <<<<"3">>, Num(3)>>>>,
     <<<<<<"1", "7", "9">>, Num(179)>>, <<<<"5", "9">>, Num(59)>>, <<<<"6", "0">>, Num(60)>>>>}

\* Separators: what follows the degrees, the minutes, and the last number.
DmsSeparators ==
    {<<<<" ">>, <<" ">>, <<>>>>,
     <<<<DegreeSign>>, <<Prime>>, <<DoublePrime>>>>,
     <<<<DegreeSign, " ">>, <<RightQuote, " ">>, <<"\"">>>>,
     <<<<":">>, <<":">>, <<" ">>>>,
     <<<<"e">>, <<"E">>, <<>>>>,
     <<<<"d">>, <<"m">>, <<"s">>>>}

DmsSigns == {<<>>, <<"-">>, <<"+">>}
DmsCompass == {<<>>, <<"N">>, <<"S">>, <<"E">>, <<"W">>}

\* The text of a sign, numbers with their separators, and a compass letter.
RECURSIVE WriteNumbers(_, _, _)
WriteNumbers(numbers, seps, i) ==
    IF i > Len(numbers) THEN <<>>
    ELSE numbers[i][1] \o (IF i < Len(numbers) THEN seps[i] ELSE seps[3])
                       \o WriteNumbers(numbers, seps, i + 1)

WriteDegrees(w) == w.sign \o WriteNumbers(w.numbers, w.seps, 1) \o w.compass

\* Texts that are no degrees: those of the package's test, words that
\* strconv.ParseFloat reads, a compass letter alone or in front.
MalformedDegrees ==
    {<<>>, <<" ", " ", " ", " ">>, <<"7", ".", "2", ".", "1">>, <<"7", ".", ".", "1", "8">>,
     <<"N", "a", "N">>, <<"I", "n", "f">>, <<"-", "i", "n", "f", "i", "n", "i", "t", "y">>,
     <<"N">>, <<"N", "4", "5">>, <<"-">>, <<"+", " ">>, <<".">>,
     <<"4", "5", " ", "7", ".", "2", ".", "1">>}

\* Latitudes and longitudes given to ParseLatLon: inside the ranges, at their
\* ends, beyond them by less and by more than a turn, not finite, not numbers.
LatTexts ==
    {<<"5", "1", ".", "4", "7", "7", "8", "8">>, <<"9", "0">>, <<"-", "9", "0">>,
     <<"9", "1">>, <<"-", "9", "1">>, <<"4", "5", "0">>, <<"4", "5", " ", "3", "0", " ", "S">>,
     <<"N", "a", "N">>, <<"x">>}
LonTexts ==
    {<<"-", "0", ".", "0", "0", "1", "4", "7">>, <<"1", "8", "0">>, <<"-", "1", "8", "0">>,
     <<"1", "8", "1">>, <<"-", "1", "8", "1">>, <<"5", "4", "0">>, <<"-", "5", "4", "0">>,
     <<"1", "8", "0", " ", "3", "0", " ", "W">>, <<"I", "n", "f">>, <<>>}
LatLonTexts ==
    {lat \o <<",">> \o lon : lat \in LatTexts, lon \in LonTexts}
    \cup {<<"5", "1">>, <<"5", "1", ",", "0", ",", "0">>, <<>>}

\* ParseDegrees(text)
InitParseDegrees ==
    /\ Datums = InitialDatums
    /\ key = "" /\ other = <<>>
    /\ NoGeometry
    /\ op = "ParseDegrees" /\ pc = "ParseDegrees"
    /\ \/ /\ written \in [sign : DmsSigns, numbers : DmsNumbers, seps : DmsSeparators,
                          compass : DmsCompass]
          /\ text \in {WriteDegrees(written), <<" ">> \o WriteDegrees(written) \o <<" ">>}
       \/ /\ written = <<>>
          /\ text \in MalformedDegrees
    /\ digits = 0 /\ str = <<>> /\ height = Zero /\ deg = <<>>
    /\ src = <<0, 0>> /\ o = OsGridRef(0, 0)
    /\ c0 = ZeroCartesian /\ d0 = NoDatum /\ p0 = ZeroLatLon
    /\ Idle

\* ParseLatLon(text, height, d0)
InitParseLatLon ==
    /\ Datums = InitialDatums
    /\ key = "" /\ other = <<>>
    /\ NoGeometry
    /\ op = "ParseLatLon" /\ pc = "ParseLatLon"
    /\ text \in LatLonTexts
    /\ height \in {Zero, Num(100)}
    /\ d0 \in {NoDatum, OSGB36}
    /\ digits = 0 /\ str = <<>> /\ written = <<>> /\ deg = <<>>
    /\ src = <<0, 0>> /\ o = OsGridRef(0, 0)
    /\ c0 = ZeroCartesian /\ p0 = ZeroLatLon
    /\ Idle

PD_ParseDegrees ==
    /\ op = "ParseDegrees" /\ pc = "ParseDegrees"
    /\ deg' = ParseDegrees(text)
    /\ pc' = "done"
    /\ UNCHANGED <<op, gridVars, convVars, callVars, Datums, text, digits, str, height, written,
                   outVars, trace, geomVars>>

PL_ParseLatLon ==
    /\ op = "ParseLatLon" /\ pc = "ParseLatLon"
    /\ l' = ParseLatLon(text, height, d0).point
    /\ err' = ParseLatLon(text, height, d0).err
    /\ pc' = "done"
    /\ UNCHANGED <<op, src, o, phi, M, iters, latlon, g2, valid, toDatum, cont, stack, ccont,
                   cart, inputVars, outVars, trace>>

InitDms == InitParseDegrees \/ InitParseLatLon

NextDms == PD_ParseDegrees \/ PL_ParseLatLon

SpecDms == InitDms /\ [][NextDms]_vars

(***************************************************************************)
(* Vectors                                                                 *)
(***************************************************************************)

Vector3d(X, Y, Z) == [X |-> X, Y |-> Y, Z |-> Z]

\* math.Sqrt(v.X*v.X + v.Y*v.Y + v.Z*v.Z)
Length(v) == FSqrt(((v.X (.) v.X) (+) (v.Y (.) v.Y)) (+) (v.Z (.) v.Z))

\* v.X*other.X + v.Y*other.Y + v.Z*other.Z
Dot(v, w) == ((v.X (.) w.X) (+) (v.Y (.) w.Y)) (+) (v.Z (.) w.Z)

Cross(v, w) ==
    Vector3d((v.Y (.) w.Z) (-) (v.Z (.) w.Y),
             (v.Z (.) w.X) (-) (v.X (.) w.Z),
             (v.X (.) w.Y) (-) (v.Y (.) w.X))

\* `if norm == 1 || norm == 0 { return v }`, else the components divided by norm.
Unit(v) ==
    With(Length(v), LAMBDA norm :
      IF norm = One \/ norm = Zero THEN v
      ELSE Vector3d(v.X (/) norm, v.Y (/) norm, v.Z (/) norm))

\* Vector3d.AngleTo: the sign from v.Cross(other).Dot(n), then
\* `sin := v.Cross(v).Length() * sign; cos := v.Dot(v); math.Atan2(sin, cos)`.
AngleTo(v, w, extraPlanar, normal) ==
    With(IF extraPlanar /\ FLt(Dot(Cross(v, w), normal), Zero) THEN Num(-1) ELSE One,
         LAMBDA sign :
      FAtan2(Length(Cross(v, v)) (.) sign, Dot(v, v)))

\* The rotation matrix for the angle theta about the unit vector ax, times p.
MatrixTimes(p, ax, theta) ==
    With3(FSin(theta), FCos(theta), One (-) FCos(theta), LAMBDA sn, cs, t :
    With3(ax.X, ax.Y, ax.Z, LAMBDA x, y, z :
      Vector3d(
        (((((t (.) x) (.) x) (+) cs) (.) p.X)
           (+) ((((t (.) x) (.) y) (-) (sn (.) z)) (.) p.Y))
           (+) ((((t (.) x) (.) z) (+) (sn (.) y)) (.) p.Z),
        (((((t (.) x) (.) y) (+) (sn (.) z)) (.) p.X)
           (+) ((((t (.) y) (.) y) (+) cs) (.) p.Y))
           (+) ((((t (.) y) (.) z) (-) (sn (.) x)) (.) p.Z),
        (((((t (.) x) (.) z) (-) (sn (.) y)) (.) p.X)
           (+) ((((t (.) y) (.) z) (+) (sn (.) x)) (.) p.Y))
           (+) ((((t (.) z) (.) z) (+) cs) (.) p.Z))))

\* Vector3d.RotateAround: `p := v.Unit(); a := v.Unit()`, the matrix from a, r x p.
RotateAround(v, axis, angle) == MatrixTimes(Unit(v), Unit(v), angle (.) toRadians)

\* The vectors of the package's tests, and some more.
Vectors ==
    {Vector3d(Num(1), Zero, Zero), Vector3d(Zero, Num(1), Zero), Vector3d(Zero, Zero, Num(1)),
     Vector3d(Num(-1), Zero, Zero), Vector3d(Zero, Num(-1), Zero), Vector3d(Num(2), Zero, Zero),
     Vector3d(Num(1), Num(1), Zero), Vector3d(Num(1), Num(2), Num(3))}

\* Plane normals: none given (the zero vector), up, down.
Normals ==
    {<<FALSE, Vector3d(Zero, Zero, Zero)>>, <<TRUE, Vector3d(Zero, Zero, Num(1))>>,
     <<TRUE, Vector3d(Zero, Zero, Num(-1))>>}

\* Angles of rotation, in degrees.
Angles == {Zero, Num(90), Num(-90), Num(180)}

\* vec.v.AngleTo(vec.other, vec.extraPlanar, vec.n)
InitAngleTo ==
    /\ Datums = InitialDatums
    /\ key = "" /\ other = <<>> /\ NoText
    /\ op = "AngleTo" /\ pc = "AngleTo"
    /\ vec \in {[v |-> v, other |-> w, extraPlanar |-> en[1], n |-> en[2]] :
                  v \in Vectors, w \in Vectors, en \in Normals}
    /\ got = <<>> /\ array = <<>> /\ calls = <<>>
    /\ src = <<0, 0>> /\ o = OsGridRef(0, 0)
    /\ c0 = ZeroCartesian /\ d0 = NoDatum /\ p0 = ZeroLatLon
    /\ Idle

\* vec.v.RotateAround(vec.axis, vec.angle)
InitRotateAround ==
    /\ Datums = InitialDatums
    /\ key = "" /\ other = <<>> /\ NoText
    /\ op = "RotateAround" /\ pc = "RotateAround"
    /\ vec \in {[v |-> v, axis |-> w, angle |-> d] :
                  v \in Vectors, w \in Vectors, d \in Angles}
    /\ got = <<>> /\ array = <<>> /\ calls = <<>>
    /\ src = <<0, 0>> /\ o = OsGridRef(0, 0)
    /\ c0 = ZeroCartesian /\ d0 = NoDatum /\ p0 = ZeroLatLon
    /\ Idle

VE_AngleTo ==
    /\ op = "AngleTo" /\ pc = "AngleTo"
    /\ got' = AngleTo(vec.v, vec.other, vec.extraPlanar, vec.n)
    /\ pc' = "done"
    /\ UNCHANGED <<op, gridVars, convVars, callVars, Datums, textVars, vec, array, calls,
                   outVars, trace>>

VE_RotateAround ==
    /\ op = "RotateAround" /\ pc = "RotateAround"
    /\ got' = RotateAround(vec.v, vec.axis, vec.angle)
    /\ pc' = "done"
    /\ UNCHANGED <<op, gridVars, convVars, callVars, Datums, textVars, vec, array, calls,
                   outVars, trace>>

InitVector == InitAngleTo \/ InitRotateAround

NextVector == VE_AngleTo \/ VE_RotateAround

SpecVector == InitVector /\ [][NextVector]_vars

(***************************************************************************)
(* The area of a polygon                                                   *)
(***************************************************************************)

LatLon(lat, lon) == [Lat |-> lat, Lon |-> lon]

earthRadius == Num(6371000)

\* Wrap360: a = 180, p = 360
Wrap360(degrees) ==
    IF FLe(Zero, degrees) /\ FLe(degrees, Num(360)) THEN degrees
    ELSE Mod(Mod((((Num(2) (.) Num(180)) (.) degrees) (/) Num(360)), Num(360)) (+) Num(360),
             Num(360))

\* LatLon.InitialBearingTo
InitialBearingTo(ll, point) ==
    With3(ll.Lat (.) toRadians, point.Lat (.) toRadians, (point.Lon (-) ll.Lon) (.) toRadians,
          LAMBDA phi1, phi2, dl :
    With2((FCos(phi1) (.) FSin(phi2)) (-) ((FSin(phi1) (.) FCos(phi2)) (.) FCos(dl)),
          FSin(dl) (.) FCos(phi2),
          LAMBDA x, y :
      Wrap360(FAtan2(y, x) (.) toDegrees)))

\* LatLon.FinalBearingTo: the initial bearing from the destination, reversed.
FinalBearingTo(ll, point) == Wrap360(InitialBearingTo(point, ll) (+) Num(180))

\* The spherical excess E of the edge from pts[v] to pts[v + 1].
EdgeExcess(pts, v) ==
    With3(pts[v].Lat (.) toRadians, pts[v + 1].Lat (.) toRadians,
          (pts[v + 1].Lon (-) pts[v].Lon) (.) toRadians,
          LAMBDA phi1, phi2, dl :
    With2(FTan(phi1 (/) Num(2)), FTan(phi2 (/) Num(2)), LAMBDA t1, t2 :
      Num(2) (.) FAtan2(FTan(dl (/) Num(2)) (.) (t1 (+) t2), One (+) (t1 (.) t2))))

\* math.Mod(x+540, 360) - 180
Delta(x) == Mod(x (+) Num(540), Num(360)) (-) Num(180)

\* One pass of the loop of isPoleEnclosedBy: what it adds to the sum of the deltas.
CourseDeltas(pts, v, prevBrng) ==
    With2(InitialBearingTo(pts[v], pts[v + 1]), FinalBearingTo(pts[v], pts[v + 1]),
          LAMBDA initBrng, finalBrng :
      Delta(initBrng (-) prevBrng) (+) Delta(finalBrng (-) initBrng))

\* The end of isPoleEnclosedBy: the last delta, through int, and `math.Abs(sum) < 90`.
Enclosed(pts, sum, prevBrng) ==
    With(InitialBearingTo(pts[1], pts[2]), LAMBDA initBrng :
      FLt(FAbs(sum (+) Num(GoRem(TruncInt((initBrng (-) prevBrng) (+) Num(540)), 360) - 180)),
          Num(90)))

\* `if isPoleEnclosedBy(polygon) { S = math.Abs(S) - 2*pi }; A := math.Abs(S * R * R)`
AreaFrom(sum, enclosed) ==
    With(IF enclosed THEN FAbs(sum) (-) (Num(2) (.) Pi) ELSE sum, LAMBDA excess :
      FAbs((excess (.) earthRadius) (.) earthRadius))

\* A slice: the array behind it (the caller's, or one append allocated) and its length.
PolygonSlice(shared, own, len) == [shared |-> shared, own |-> own, len |-> len]

\* The elements of a slice, read now.
Elements(slice) == IF slice.shared THEN SubSeq(array, 1, slice.len) ELSE slice.own

\* append(polygon, elem): in place when the capacity allows it, into a fresh array
\* otherwise.  The result is the slice and the array behind the caller's slice.
AppendTo(slice, arr, elem) ==
    IF slice.shared /\ slice.len < Len(arr)
    THEN [slice |-> PolygonSlice(TRUE, <<>>, slice.len + 1),
          array |-> [arr EXCEPT ![slice.len + 1] = elem]]
    ELSE [slice |-> PolygonSlice(FALSE, Append(IF slice.shared THEN SubSeq(arr, 1, slice.len)
                                         ELSE slice.own, elem), slice.len + 1),
          array |-> arr]

\* A call AreaOf(array[:len]) about to start; `given` keeps the array as it was and
\* `caller` the length of the caller's slice.
AreaCall(len) ==
    [pc |-> "close", polygon |-> PolygonSlice(TRUE, <<>>, len), given |-> array, caller |-> len,
     closed |-> FALSE, v |-> 1, S |-> Zero, sum |-> Zero, prevBrng |-> Zero,
     A |-> Zero, err |-> "nil"]

\* The polygons of the package's tests, one point alone, one point twice.
Polygons ==
    {<<LatLon(Num(45), Num(45)), LatLon(Num(50), Num(50))>>,
     <<LatLon(Num(1), Num(1)), LatLon(Num(2), Num(1)), LatLon(Num(1), Num(2))>>,
     <<LatLon(Num(1), Num(1)), LatLon(Num(2), Num(1)), LatLon(Num(1), Num(2)),
       LatLon(Num(1), Num(1))>>,
     <<LatLon(Num(89), Zero), LatLon(Num(89), Num(120)), LatLon(Num(89), Num(-120))>>,
     <<LatLon(Num(45), Num(45))>>,
     <<LatLon(Num(45), Num(45)), LatLon(Num(45), Num(45))>>,
     <<LatLon(Zero, Zero), LatLon(Zero, Num(90))>>}

\* What the caller's array holds beyond the polygon.
Spares == {<<>>, <<LatLon(Num(9), Num(9))>>}

\* AreaOf(array[:n]), and `go AreaOf(array[:n]); go AreaOf(array[:m])`
InitAreaOf ==
    /\ Datums = InitialDatums
    /\ key = "" /\ other = <<>> /\ NoText
    /\ op = "AreaOf" /\ pc = "AreaOf"
    /\ vec = <<>> /\ got = <<>>
    /\ \E pts \in Polygons, spare \in Spares :
          /\ array = pts \o spare
          /\ \/ calls = <<AreaCall(Len(pts))>>
             \/ /\ Len(pts) = 3 /\ Len(spare) = 1
                /\ \E m \in {Len(pts), Len(pts) + 1} :
                      calls = <<AreaCall(Len(pts)), AreaCall(m)>>
    /\ src = <<0, 0>> /\ o = OsGridRef(0, 0)
    /\ c0 = ZeroCartesian /\ d0 = NoDatum /\ p0 = ZeroLatLon
    /\ Idle

\* `closed := polygon[0] == polygon[len(polygon)-1]; if !closed { polygon = append(polygon, polygon[0]) }`
AO_Close ==
    \E g \in DOMAIN calls :
    /\ op = "AreaOf" /\ calls[g].pc = "close"
    /\ \E pts \in {Elements(calls[g].polygon)},
          appended \in {AppendTo(calls[g].polygon, array, array[1])} :
         IF pts[1] = pts[Len(pts)]
         THEN /\ calls' = [calls EXCEPT ![g].closed = TRUE, ![g].pc = "sum"]
              /\ array' = array
         ELSE /\ calls' = [calls EXCEPT ![g].polygon = appended.slice, ![g].pc = "sum"]
              /\ array' = appended.array
    /\ UNCHANGED <<op, pc, gridVars, convVars, callVars, Datums, textVars, vec, got, outVars,
                   trace>>

\* One pass of `for v := 0; v < nVertices; v++ { ... S += E }`, v counted from 1 here.
AO_Edge ==
    \E g \in DOMAIN calls :
    /\ op = "AreaOf" /\ calls[g].pc = "sum"
    /\ calls[g].v <= calls[g].polygon.len - 1
    /\ calls' = [calls EXCEPT
                   ![g].S = calls[g].S (+) EdgeExcess(Elements(calls[g].polygon), calls[g].v),
                   ![g].v = calls[g].v + 1]
    /\ UNCHANGED <<op, pc, gridVars, convVars, callVars, Datums, textVars, vec, got, array,
                   outVars, trace>>

\* isPoleEnclosedBy(polygon) entered: `prevBrng := p[0].InitialBearingTo(p[1])`.
AO_Pole ==
    \E g \in DOMAIN calls :
    /\ op = "AreaOf" /\ calls[g].pc = "sum"
    /\ calls[g].v > calls[g].polygon.len - 1
    /\ \E pts \in {Elements(calls[g].polygon)} :
         IF Len(pts) < 2
         THEN calls' = [calls EXCEPT ![g].err = "panic: index out of range [1] with length 1",
                                     ![g].pc = "done"]
         ELSE calls' = [calls EXCEPT ![g].prevBrng = InitialBearingTo(pts[1], pts[2]),
                                     ![g].v = 1,
                                     ![g].pc = "pole"]
    /\ UNCHANGED <<op, pc, gridVars, convVars, callVars, Datums, textVars, vec, got, array,
                   outVars, trace>>

\* One pass of the loop of isPoleEnclosedBy.
AO_Course ==
    \E g \in DOMAIN calls :
    /\ op = "AreaOf" /\ calls[g].pc = "pole"
    /\ calls[g].v <= calls[g].polygon.len - 1
    /\ \E pts \in {Elements(calls[g].polygon)} :
         calls' = [calls EXCEPT
                     ![g].sum = calls[g].sum (+) CourseDeltas(pts, calls[g].v, calls[g].prevBrng),
                     ![g].prevBrng = FinalBearingTo(pts[calls[g].v], pts[calls[g].v + 1]),
                     ![g].v = calls[g].v + 1]
    /\ UNCHANGED <<op, pc, gridVars, convVars, callVars, Datums, textVars, vec, got, array,
                   outVars, trace>>

\* isPoleEnclosedBy returns, and AreaOf returns the area.
AO_Return ==
    \E g \in DOMAIN calls :
    /\ op = "AreaOf" /\ calls[g].pc = "pole"
    /\ calls[g].v > calls[g].polygon.len - 1
    /\ calls' = [calls EXCEPT
                   ![g].A = AreaFrom(calls[g].S,
                                     Enclosed(Elements(calls[g].polygon), calls[g].sum,
                                              calls[g].prevBrng)),
                   ![g].pc = "done"]
    /\ UNCHANGED <<op, pc, gridVars, convVars, callVars, Datums, textVars, vec, got, array,
                   outVars, trace>>

NextArea == AO_Close \/ AO_Edge \/ AO_Pole \/ AO_Course \/ AO_Return

SpecArea == InitAreaOf /\ [][NextArea]_vars

(***************************************************************************)
(* The whole package                                                       *)
(***************************************************************************)

Init ==
    \/ InitGrid \/ InitFar \/ InitToOsGridRef \/ InitDatum \/ InitLookup \/ InitConcurrent
    \/ InitText \/ InitDms \/ InitVector \/ InitAreaOf

Next ==
    \/ NextGrid \/ NextFar \/ NextProject \/ NextDatum \/ NextLookup \/ NextConcurrent
    \/ NextText \/ NextDms \/ NextVector \/ NextArea

Spec == Init /\ [][Next]_vars

(***************************************************************************)
(* Properties                                                              *)
(***************************************************************************)

\* C1: for every valid grid reference g (0 <= Easting <= 700000, 0 <= Northing <=
\* 1300000), converting g to WGS84 latitude and longitude with ToLatLon and the
\* result back with ToOsGridRef returns g: the same Easting and the same Northing.
C1_RoundTripExact ==
    (op = "RoundTrip" /\ pc = "done" /\ Valid(o))
        => (g2.Easting = o.Easting /\ g2.Northing = o.Northing)

\* The round trip of the far corner of the extent has completed, through both datum
\* conversions, and returned the corner.
C1_Witness ==
    /\ op = "RoundTrip" /\ pc = "done"
    /\ o = OsGridRef(700000, 1300000)
    /\ g2 = o
    /\ Len(SelectSeq(trace, LAMBDA ev : ev[1] = "applyTransform")) = 2

\* C3: Valid() is true exactly when 0 <= Easting <= 700000 and 0 <= Northing <=
\* 1300000, both ends included: (0,0) and (700000,1300000) are valid, an Easting of
\* 700001, a Northing of 1300001 and any negative component are not.
C3_ValidExtent ==
    (op = "Valid" /\ pc = "done")
        => /\ valid <=> (o.Easting \in 0..700000 /\ o.Northing \in 0..1300000)
           /\ o \in {OsGridRef(0, 0), OsGridRef(700000, 1300000)} => valid
           /\ (o.Easting = 700001 \/ o.Northing = 1300001) => ~valid
           /\ (o.Easting < 0 \/ o.Northing < 0) => ~valid

\* Valid() has answered true for the far corner of the extent.
C3_Witness ==
    op = "Valid" /\ pc = "done" /\ o = OsGridRef(700000, 1300000) /\ valid

\* C10: for every valid grid reference the latitude-recovery loop of ToLatLon ends:
\* it makes at most 10 passes, and when it is left |N - N0 - M| < 0.00001 holds.
C10_LoopConverges ==
    (op = "RoundTrip" /\ Valid(o))
        => /\ iters <= 10
           /\ (pc = "latloop" /\ iters > 0) => ~Converged(Num(o.Northing), M)
           /\ pc = "series" => (iters >= 1 /\ Converged(Num(o.Northing), M))

\* The loop has been left after several passes for a valid reference.
C10_Witness ==
    /\ op = "RoundTrip" /\ pc = "series" /\ Valid(o)
    /\ iters >= 3
    /\ Converged(Num(o.Northing), M)

\* C2: a grid reference outside the extent (Easting > 700000 or Northing > 1300000)
\* is never silently turned into a latitude and longitude: once ToLatLon has
\* returned for such a reference, ParseOsGridRef or ToLatLon has reported an error.
C2_OutOfRangeReported ==
    (op = "RoundTrip" /\ pc = "ToOsGridRef" /\ (o.Easting > 700000 \/ o.Northing > 1300000))
        => err # "nil"

(***************************************************************************)
(* Properties of the datum engine                                          *)
(***************************************************************************)

\* The Helmert image of point under the parameters t, named as a point of d.
HelmertIn(point, t, d) ==
    With(applyTransform(point, t), LAMBDA moved :
      Cartesian(moved.X, moved.Y, moved.Z, d))

\* The point `point` expressed in d: itself when it is already in d, else its
\* Helmert image from or to WGS84, or through WGS84.
Expressed(point, d) ==
    IF point.Datum.Name = d.Name THEN point
    ELSE IF point.Datum.Name = "WGS84" THEN HelmertIn(point, d.Transform, d)
    ELSE IF d.Name = "WGS84"
      THEN HelmertIn(point, [i \in 1..7 |-> FNeg(point.Datum.Transform[i])], d)
    ELSE With(HelmertIn(point, [i \in 1..7 |-> FNeg(point.Datum.Transform[i])],
                        Datums["WGS84"]),
              LAMBDA onHub : HelmertIn(onHub, d.Transform, d))

\* The Helmert transforms applied so far, in order.
Transforms == SelectSeq(trace, LAMBDA ev : ev[1] = "applyTransform")

\* A call c.ConvertDatum(d) has just returned `cart` to its caller.
ReturnedFrom(c, d) ==
    /\ cart.Datum = d
    /\ cart.Datum # NoDatum
    /\ cart = Expressed(c, d)

\* C4: whenever Cartesian.ConvertDatum returns, to any of its callers and on every
\* path, the returned point carries the destination datum as its tag and its
\* coordinates are those of the receiver expressed in that datum; the untagged
\* result of applyTransform is never what a caller receives.
C4_TagAndCoordinatesTogether ==
    /\ pc = "direct_ret" => ReturnedFrom(c0, d0)
    /\ pc = "hub_ret" => ReturnedFrom(c0, WGS84)
    /\ pc = "via_ret" => ReturnedFrom(hub, d0)
    /\ pc = "LL_ToLatLon" => ReturnedFrom(ToCartesian(l), toDatum)
    /\ (Running /\ Top.pc = "relay") => ReturnedFrom(Top.c, WGS84)

\* A conversion through the hub, OSGB36 to ED50, has returned a point tagged ED50
\* whose coordinates have moved.
C4_Witness ==
    /\ op = "CartConvert" /\ pc = "direct_ret"
    /\ c0.Datum.Name = "OSGB36" /\ d0.Name = "ED50"
    /\ cart.Datum = d0
    /\ cart.X # c0.X
    /\ Len(Transforms) = 2

\* C5: when neither the datum of c nor d is WGS84 and they differ, c.ConvertDatum(d)
\* equals c.ConvertDatum(WGS84).ConvertDatum(d); the transforms executed are source
\* to WGS84 then WGS84 to d with d's stored parameters, and no transform is applied
\* between two datums neither of which is WGS84.
C5_RelayThroughHub ==
    (/\ op = "CartConvert" /\ pc = "done"
     /\ c0.Datum.Name # "WGS84" /\ d0.Name # "WGS84" /\ c0.Datum.Name # d0.Name)
        => /\ direct = via
           /\ hub.Datum = WGS84
           /\ direct = HelmertIn(hub, d0.Transform, d0)
           /\ Transforms = << <<"applyTransform", c0.Datum.Name, "WGS84">>,
                              <<"applyTransform", "WGS84", d0.Name>>,
                              <<"applyTransform", c0.Datum.Name, "WGS84">>,
                              <<"applyTransform", "WGS84", d0.Name>> >>

\* OSGB36 to ED50 done both ways: the two results agree and differ from the point
\* at the hub.
C5_Witness ==
    /\ op = "CartConvert" /\ pc = "done"
    /\ c0.Datum.Name = "OSGB36" /\ d0.Name = "ED50"
    /\ direct = via
    /\ direct.X # hub.X
    /\ hub.X # c0.X

\* C6: when the destination is WGS84 and the source is not, the transform applied
\* has each of the seven parameters of the source datum negated; when the source is
\* WGS84 the parameters applied are those stored for the destination, unchanged.
C6_InverseByNegation ==
    (Running /\ Top.pc \in {"apply", "tag", "return"})
        => /\ (Top.c.Datum.Name # "WGS84" /\ Top.toDatum.Name = "WGS84")
                => /\ \A i \in 1..7 : Top.transform[i] = FNeg(Top.c.Datum.Transform[i])
                   /\ Top.oldCartesian = Top.c
           /\ (Top.c.Datum.Name = "WGS84" /\ Top.toDatum.Name # "WGS84")
                => /\ Top.transform = Top.toDatum.Transform
                   /\ Top.oldCartesian = Top.c
           /\ Top.pc = "tag"
                => Top.newCartesian = applyTransform(Top.oldCartesian, Top.transform)

\* OSGB36 to WGS84: the transform applied starts with tx = 446.448, the negation
\* of the stored -446.448.
C6_Witness ==
    /\ Running /\ Top.pc = "tag"
    /\ Top.c.Datum.Name = "OSGB36" /\ Top.toDatum.Name = "WGS84"
    /\ Top.c.Datum.Transform[1] = FNeg(Dec(446, 448, 1000))
    /\ Top.transform[1] = Dec(446, 448, 1000)

\* C7: p.ConvertDatum(p.Datum) returns p unchanged: the same Lat, Lon, Height and
\* Datum.
C7_OwnDatumUnchanged ==
    (op = "LLConvert" /\ pc = "done" /\ d0.Name = p0.Datum.Name) => l = p0

\* C8 as stated: exactly one entry of the registry has the all-zero transform, and
\* it is WGS84.
C8_ExactlyOneIdentity ==
    /\ Cardinality({dn \in DatumNames : Datums[dn].Transform = ZeroTransform}) = 1
    /\ Datums["WGS84"].Transform = ZeroTransform

\* C8 amended: the entries of the registry with the all-zero transform are ETRS89
\* and WGS84, and WGS84 is the hub of every conversion: each Helmert transform
\* applied starts from a point of WGS84 or ends in WGS84, also when the other end
\* is ETRS89.
C8_IdentityEntriesAndHub ==
    /\ {dn \in DatumNames : Datums[dn].Transform = ZeroTransform} = {"ETRS89", "WGS84"}
    /\ WGS84.Name = "WGS84"
    /\ (Running /\ Top.pc = "apply")
          => \/ Top.oldCartesian.Datum = WGS84
             \/ Top.toDatum = WGS84 /\ Top.oldCartesian = Top.c

\* ETRS89 to OSGB36: the point has been taken to WGS84 first, and the transform
\* from WGS84 to OSGB36 is about to be applied.
C8_Witness ==
    /\ Running /\ Len(stack) = 1 /\ Top.pc = "apply"
    /\ Top.c.Datum.Name = "ETRS89" /\ Top.toDatum.Name = "OSGB36"
    /\ Top.oldCartesian.Datum = WGS84
    /\ Top.transform = OSGB36.Transform

\* C9: ToLatLon of a point of the polar axis (X = 0, Y = 0, Z # 0) returns latitude
\* +90 for Z > 0 and -90 for Z < 0, longitude 0, and no NaN.
C9_PolarAxis ==
    (op = "CartToLatLon" /\ pc = "done" /\ c0.X = Zero /\ c0.Y = Zero /\ c0.Z # Zero)
        => /\ l.Lat = (IF c0.Z.s = 1 THEN Num(90) ELSE Num(-90))
           /\ l.Lon = Zero
           /\ ~IsNaN(l.Lat) /\ ~IsNaN(l.Lon) /\ ~IsNaN(l.Height)

\* Two coordinates in metres agree to a nanometre.
SameMetres(u, w) == FLe(FAbs(u (-) w), Dec(0, 1, 1000000000))

\* An angle of r arc-seconds in radians: r * pi / (180 * 3600).
ArcSecondsToRadians(r) == (r (.) Pi) (/) Num(648000)

\* The Helmert image of (x, y, z) under t = (tx, ty, tz, s, rx, ry, rz) as the
\* claim writes it.
HelmertFormula(x, y, z, t) ==
    With4((t[4] (/) Num(1000000)) (+) One,
          ArcSecondsToRadians(t[5]), ArcSecondsToRadians(t[6]), ArcSecondsToRadians(t[7]),
          LAMBDA S, Rx, Ry, Rz :
      << ((t[1] (+) (x (.) S)) (-) (y (.) Rz)) (+) (z (.) Ry),
         ((t[2] (+) (x (.) Rz)) (+) (y (.) S)) (-) (z (.) Rx),
         ((t[3] (-) (x (.) Ry)) (+) (y (.) Rx)) (+) (z (.) S) >>)

\* C11: applyTransform with parameters (tx, ty, tz, s, rx, ry, rz) returns
\* x' = tx + x*S - y*Rz + z*Ry, y' = ty + x*Rz + y*S - z*Rx, z' = tz - x*Ry + y*Rx + z*S
\* with S = s/1e6 + 1 and Rx, Ry, Rz the rotations taken from arc-seconds to
\* radians; with all seven parameters zero the point is returned as it is.
C11_HelmertFormula ==
    (Running /\ Top.pc = "tag")
        => With2(Top.oldCartesian, Top.newCartesian, LAMBDA old, new :
           With(HelmertFormula(old.X, old.Y, old.Z, Top.transform), LAMBDA want :
             /\ SameMetres(new.X, want[1])
             /\ SameMetres(new.Y, want[2])
             /\ SameMetres(new.Z, want[3])
             /\ Top.transform = ZeroTransform
                  => (new.X = old.X /\ new.Y = old.Y /\ new.Z = old.Z)))

\* applyTransform has run with the parameters of OSGB36, where the scale and the
\* rotations move the point by more than the translation does.
C11_Witness ==
    /\ Running /\ Top.pc = "tag"
    /\ Top.oldCartesian.Datum.Name = "WGS84" /\ Top.toDatum.Name = "OSGB36"
    /\ ~SameMetres(Top.newCartesian.X, Top.transform[1] (+) Top.oldCartesian.X)
    /\ SameMetres(Top.newCartesian.X,
                  HelmertFormula(Top.oldCartesian.X, Top.oldCartesian.Y,
                                 Top.oldCartesian.Z, Top.transform)[1])

\* Two angles in degrees agree to 1e-4 degrees.
WithinTenThousandth(u, w) == FLe(FAbs(u (-) w), Dec(0, 1, 10000))

C13_UnknownDatumReported ==
    (op = "Lookup" /\ key \notin DOMAIN Datums /\ pc # "lookup")
        => (err # "nil" /\ Transforms = <<>>)

\* The frames of both stacks that exist before and after a step keep their
\* receiver and their argument.
FramesKept ==
    \A i \in 1..Len(stack) :
        i <= Len(stack') => (stack'[i].c = stack[i].c /\ stack'[i].toDatum = stack[i].toDatum)

\* C14: no step of a conversion writes to the registry, to the receiver or to the
\* argument of a call, and so two conversions interleaved in any way each return
\* what they return when run alone: the receiver expressed in the destination.
C14_NoSharedWrites ==
    /\ []((op = "Concurrent" /\ pc = "done" /\ other.pc = "done")
            => (direct = Expressed(c0, d0) /\ other.direct = Expressed(other.c0, other.d0)))
    /\ [][/\ Datums' = Datums
          /\ p0' = p0
          /\ other' = other => (c0' = c0 /\ d0' = d0 /\ FramesKept)
          /\ other' # other => (c0' = other.c0 /\ d0' = other.d0 /\ other'.c0 = c0
                                /\ other'.d0 = d0 /\ other'.stack = stack)]_vars

\* Both goroutines have finished after running interleaved: both calls began
\* before either transformed anything, one of them towards WGS84, and each result
\* moved from its receiver.
C14_Witness ==
    /\ op = "Concurrent" /\ pc = "done" /\ other.pc = "done"
    /\ Len(trace) >= 4
    /\ trace[1][1] = "ConvertDatum" /\ trace[2][1] = "ConvertDatum"
    /\ d0.Name = "WGS84" /\ c0.Datum.Name = "OSGB36"
    /\ other.d0.Name = "ED50" /\ other.c0.Datum.Name = "OSGB36"
    /\ direct.X # c0.X /\ other.direct.X # other.c0.X
    /\ Datums = InitialDatums

(***************************************************************************)
(* Properties of the grid references as texts                              *)
(***************************************************************************)

\* The text as ParseOsGridRef reads it: spaces removed, letters upper-cased.
Canonical(s) == ToUpper(RemoveSpaces(s))

\* ParseOsGridRef accepted the text in letter-pair form with 2k digits, 1 <= k <= 5,
\* and the reference was formatted with StringN(2k).
AcceptedLetterPair ==
    /\ op = "ParseText" /\ pc = "done" /\ err = "nil"
    /\ MatchGridRef(Canonical(text))
    /\ Len(Canonical(text)) - 2 \in DigitCounts

\* C15: for every string that ParseOsGridRef accepts in letter-pair form with 2k
\* digits (1 <= k <= 5), formatting the parsed reference with StringN(2k) and
\* removing the spaces gives back the string with its spaces removed and its
\* letters upper-cased.
C15_LetterPairRoundTrip ==
    AcceptedLetterPair => RemoveSpaces(str["StringN"]) = Canonical(text)

\* The letters of the National Grid's squares: five rows of five, A to Z without
\* I, the first row the northernmost.
SquareAlphabet ==
    <<"A", "B", "C", "D", "E", "F", "G", "H", "J", "K", "L", "M", "N",
      "O", "P", "Q", "R", "S", "T", "U", "V", "W", "X", "Y", "Z">>

\* The letter at a row and a column of the five by five.
SquareLetter(row, col) == SquareAlphabet[row * 5 + col + 1]

\* The 100 km square of a reference: the letter of its 500 km square (S lies at row
\* 3, column 2, and holds the false origin), then the letter of the 100 km square
\* within it, counted from the south-west corner.
SquareLetters(ref) ==
    <<SquareLetter(3 - ref.Northing \div 500000, 2 + ref.Easting \div 500000),
      SquareLetter(4 - (ref.Northing % 500000) \div 100000,
                   (ref.Easting % 500000) \div 100000)>>

\* The first `places` digits of the five digits of the metres within the square.
LeadingDigits(metres, places) ==
    SubSeq(ZeroPadded(5, FormatNat(metres % 100000)), 1, places)

\* The text of a reference at d digits.
Formatted(ref, d) ==
    SquareLetters(ref) \o <<" ">> \o LeadingDigits(ref.Easting, d \div 2)
                       \o <<" ">> \o LeadingDigits(ref.Northing, d \div 2)

\* C16: for every even digit count d in {2, 4, 6, 8, 10} and every valid OsGridRef,
\* StringN(d) is the two letters of the reference's 100 km square followed by the
\* easting and the northing within that square, each truncated (never rounded) to
\* d/2 digits and zero-padded to d/2 digits; String() equals StringN(8), and
\* StringNCompact(d) is the same text without spaces.
C16_StringNFormat ==
    (op = "Format" /\ pc = "done" /\ Valid(o) /\ digits \in DigitCounts) =>
        /\ str["StringN"] = Formatted(o, digits)
        /\ str["String"] = Formatted(o, 8)
        /\ digits = 8 => str["String"] = str["StringN"]
        /\ str["StringNCompact"] = RemoveSpaces(str["StringN"])

\* The package's example: 28548 m at four digits is 2854, not 2855.
C16_Witness ==
    /\ op = "Format" /\ pc = "done" /\ Valid(o) /\ digits = 8
    /\ o = OsGridRef(146760, 28548)
    /\ str["StringN"] = <<"S", "W", " ", "4", "6", "7", "6", " ", "2", "8", "5", "4">>
    /\ str["StringNCompact"] = <<"S", "W", "4", "6", "7", "6", "2", "8", "5", "4">>
    /\ str["String"] = str["StringN"]

\* The first letters beyond the 500 km squares ParseOsGridRef reads: before J and
\* after T.
BeyondLetters == {"A", "B", "C", "D", "E", "F", "G", "H", "U", "V", "W", "X", "Y", "Z"}

\* A letter-pair reference ParseOsGridRef is to refuse: it contains the letter I,
\* its first letter is beyond the squares, it has one letter only, an odd number of
\* digits, or something other than digits after its letters.
Refused(s) ==
    /\ Len(s) >= 2 /\ IsUpper(s[1])
    /\ \/ s[1] = "I" \/ s[2] = "I"
       \/ s[1] \in BeyondLetters
       \/ ~IsUpper(s[2])
       \/ IsUpper(s[2]) /\ AllDigits(SubSeq(s, 3, Len(s))) /\ (Len(s) - 2) % 2 = 1
       \/ IsUpper(s[2]) /\ ~AllDigits(SubSeq(s, 3, Len(s)))

\* C17: ParseOsGridRef returns a non-nil error together with the zero OsGridRef for
\* every letter-pair reference that contains the letter I, whose first letter lies
\* beyond the lettered 500 km squares (e.g. Z), that has only one letter, that has
\* an odd number of digits, or that has a non-digit character after the letters.
C17_MalformedRefused ==
    (op = "ParseText" /\ pc # "ParseOsGridRefText" /\ Refused(Canonical(text))) =>
        (err # "nil" /\ o = OsGridRef(0, 0) /\ pc = "done" /\ str = <<>>)

\* An odd number of digits after two letters of the grid.
C17_Witness ==
    /\ op = "ParseText" /\ pc = "done"
    /\ Canonical(text) = <<"S", "J", "9", "5", "2", "5", "5">>
    /\ Refused(Canonical(text))
    /\ err = "invalid grid reference" /\ o = OsGridRef(0, 0)

\* C18: for every OsGridRef g with non-negative Easting and Northing,
\* ParseOsGridRef(g.NumericString()) returns exactly g with no error, also when a
\* space follows the comma.
C18_NumericRoundTrip ==
    (op = "Numeric" /\ pc = "done" /\ o.Easting >= 0 /\ o.Northing >= 0) =>
        (g2 = o /\ err = "nil")

(***************************************************************************)
(* Properties of the degrees as texts                                      *)
(***************************************************************************)

\* C19: every point returned without error by ParseLatLon has Lat in [-90, 90] and
\* Lon in (-180, 180] (the value -180 excluded), whatever degrees were parsed from
\* the input.
C19_ParsedPointInRange ==
    (op = "ParseLatLon" /\ pc = "done" /\ err = "nil") =>
        /\ FLe(Num(-90), l.Lat) /\ FLe(l.Lat, Num(90))
        /\ FLt(Num(-180), l.Lon) /\ FLe(l.Lon, Num(180))

\* Two numbers of degrees within a billionth of a degree.
SameDegrees(u, w) == FLe(FAbs(u (-) w), Dec(0, 1, 1000000000))

\* The degrees a sign, numbers and a compass letter stand for: d + m/60 + s/3600,
\* negated by a leading '-' and by a trailing S or W.
StandsFor(w) ==
    With(w.numbers[1][2]
           (+) ((IF Len(w.numbers) >= 2 THEN w.numbers[2][2] ELSE Zero) (/) Num(60))
           (+) ((IF Len(w.numbers) >= 3 THEN w.numbers[3][2] ELSE Zero) (/) Num(3600)),
         LAMBDA magnitude :
           IF w.sign = <<"-">> \/ w.compass \in {<<"S">>, <<"W">>}
           THEN FNeg(magnitude) ELSE magnitude)

\* C20: ParseDegrees returns d + m/60 + s/3600 for a degrees[, minutes[, seconds]]
\* string with any non-numeric separators, negated when the string has a leading
\* '-' or a trailing S or W (a leading '+' or trailing N or E leaves it positive),
\* and returns a non-nil error for empty, blank or numerically malformed input
\* such as "7.2.1" or "7..18".
C20_DegreesRead ==
    (op = "ParseDegrees" /\ pc = "done") =>
        IF written = <<>> THEN deg.err # "nil"
        ELSE deg.err = "nil" /\ SameDegrees(deg.val, StandsFor(written))

(***************************************************************************)
(* Properties of the conversions between the grid and WGS84                *)
(***************************************************************************)

\* The next pass of the latitude-recovery loop leaves phi, and with it M, as they
\* are, and the exit test fails: every later pass does the same.
Stalled ==
    /\ pc = "latloop" /\ iters > 0
    /\ ~Converged(Float64OfNorthing(o), M)
    /\ LoopPhi(Float64OfNorthing(o), phi, M) = phi

\* C24: the latitude-recovery loop of OsGridRef.ToLatLon is bounded by an explicit
\* maximum-iteration guard and reports a failed-to-converge error when the guard is
\* reached, so that ToLatLon terminates for every OsGridRef, references outside
\* the valid extent included: the loop never goes on without end unreported.
C24_LoopGuarded == Stalled => err # "nil"

\* What OsGridRef.ToLatLon has done when it returns: one conversion of the
\* unprojected point, OSGB36 to WGS84, by way of Cartesian coordinates.
OneConversionToWGS84 ==
    <<<<"ToCartesian", "OSGB36">>, <<"ConvertDatum", "OSGB36", "WGS84">>,
      <<"applyTransform", "OSGB36", "WGS84">>, <<"ToLatLon", "WGS84">>>>

\* C25: OsGridRef.ToLatLon first inverts the projection to a point tagged OSGB36 and
\* then performs exactly one datum conversion OSGB36 -> WGS84 (ToCartesian, Helmert
\* with the negated OSGB36 parameters, Cartesian.ToLatLon); the latitude and
\* longitude it returns are on WGS84, never the intermediate OSGB36 values.
C25_UnprojectThenConvertOnce ==
    (op = "RoundTrip" /\ pc = "ToOsGridRef") =>
        /\ trace = OneConversionToWGS84
        /\ l.Datum = WGS84
        /\ With(InverseSeries(Num(o.Easting), phi), LAMBDA unprojected :
             /\ unprojected.Datum = OSGB36
             /\ latlon # <<unprojected.Lat, unprojected.Lon>>
             /\ With(ToCartesian(unprojected), LAMBDA cartesian :
                With(Expressed(cartesian, WGS84), LAMBDA converted :
                With(CartesianToLatLon(converted), LAMBDA onWGS84 :
                  latlon = <<onWGS84.Lat, onWGS84.Lon>>))))

\* The reference of the package's test, TG 51409 13177, returned on WGS84.
C25_Witness ==
    /\ op = "RoundTrip" /\ pc = "ToOsGridRef"
    /\ o = OsGridRef(651409, 313177)
    /\ trace = OneConversionToWGS84
    /\ l.Datum = WGS84 /\ latlon = <<l.Lat, l.Lon>>
    /\ WithinTenThousandth(latlon[1], Dec(52, 65798, 100000))
    /\ WithinTenThousandth(latlon[2], Dec(1, 71605, 100000))

\* The grid reference of a point once it is on OSGB36.
OnOSGB36(point) ==
    IF point.Datum.Name = "OSGB36" THEN point
    ELSE With(ToCartesian(point), LAMBDA cartesian :
         With(Expressed(cartesian, OSGB36), LAMBDA converted :
           CartesianToLatLon(converted)))

ProjectedOnOSGB36(point) == With(OnOSGB36(point), LAMBDA converted : Project(converted))

\* The Helmert transforms a point of datum d needs to reach OSGB36.
TransformsToOSGB36(d) ==
    IF d.Name = "OSGB36" THEN <<>>
    ELSE IF d.Name = "WGS84" THEN <<<<"applyTransform", "WGS84", "OSGB36">>>>
    ELSE <<<<"applyTransform", d.Name, "WGS84">>, <<"applyTransform", "WGS84", "OSGB36">>>>

\* C26: LatLonEllipsoidalDatum.ToOsGridRef projects a point already tagged OSGB36
\* with no datum conversion at all, and converts a point on any other datum to
\* OSGB36 before projecting (through WGS84 when the source datum is neither WGS84
\* nor OSGB36); the projection is always evaluated on OSGB36 coordinates and the
\* receiver is not modified.
C26_ProjectOnOSGB36 ==
    /\ [](op = "ToOsGridRef" =>
            /\ (pc = "done" /\ p0.Datum.Name = "OSGB36") => trace = <<<<"project", "OSGB36">>>>
            /\ pc = "done" =>
                 /\ Transforms = TransformsToOSGB36(p0.Datum)
                 /\ trace[Len(trace)] = <<"project", "OSGB36">>
                 /\ \A i \in 1..(Len(trace) - 1) : trace[i][1] # "project"
                 /\ With(ProjectedOnOSGB36(p0), LAMBDA projected : g2 = projected)
            /\ pc = "project" => l.Datum = OSGB36)
    /\ [][op = "ToOsGridRef" => p0' = p0]_vars

\* A point of ED50 projected after two Helmert transforms, one of OSGB36 after none.
C26_Witness ==
    /\ op = "ToOsGridRef" /\ pc = "done"
    /\ p0.Datum.Name = "ED50"
    /\ Len(Transforms) = 2
    /\ trace[Len(trace)] = <<"project", "OSGB36">>
    /\ g2 # Project(p0)

\* The meridional arc with the coefficient factors at their fractional values.
MeridionalArc(lat) ==
    With4((((One (+) n) (+) (Dec(1, 25, 100) (.) n2))
             (+) (Dec(1, 25, 100) (.) n3)) (.) (lat (-) phi0),
          (((((Num(3) (.) n) (+) ((Num(3) (.) n) (.) n))
             (+) (Dec(2, 625, 1000) (.) n3)))
             (.) FSin(lat (-) phi0)) (.) FCos(lat (+) phi0),
          ((((Dec(1, 875, 1000) (.) n2) (+) (Dec(1, 875, 1000) (.) n3)))
             (.) FSin(Num(2) (.) (lat (-) phi0))) (.) FCos(Num(2) (.) (lat (+) phi0)),
          (((Num(35) (/) Num(24)) (.) n3)
             (.) FSin(Num(3) (.) (lat (-) phi0))) (.) FCos(Num(3) (.) (lat (+) phi0)),
          LAMBDA Ma, Mb, Mc, Md :
      (b (.) F0) (.) (((Ma (-) Mb) (+) Mc) (-) Md))

\* Two lengths less than a millimetre apart.
WithinMillimetre(x, y) == FLt(FAbs(x (-) y), Dec(0, 1, 1000))

\* C27: in the meridional-arc series M of both OsGridRef.ToLatLon and
\* LatLonEllipsoidalDatum.ToOsGridRef the coefficient factors written 5/4, 21/8,
\* 15/8 and 35/24 enter the sum with their fractional values, not with the
\* truncated integer quotients 1, 2, 1 and 1.
C27_FractionalCoefficients ==
    /\ (op = "RoundTrip" /\ pc \in {"latloop", "series"} /\ iters > 0)
          => With(MeridionalArc(phi), LAMBDA arc : WithinMillimetre(M, arc))
    /\ (op = "RoundTrip" /\ pc = "done" /\ l.Datum = OSGB36)
          => With(l.Lat (.) toRadians, LAMBDA lat :
             With2(M_ToOsGridRef(lat), MeridionalArc(lat), LAMBDA computed, arc :
               WithinMillimetre(computed, arc)))

\* C28: for every OsGridRef g for which Valid() is true, ParseOsGridRef(g.StringN(10))
\* returns g with no error: every letter pair the formatter prints for a reference
\* inside the extent, the squares with Northing >= 1000000 and those on the
\* Easting = 700000 and Northing = 1300000 edges included, is accepted by the
\* parser and decoded to the same 100 km square.
C28_ValidReadBack ==
    (op = "ReadBack" /\ pc = "done" /\ Valid(o)) => err = "nil" /\ g2 = o

RECURSIVE LastCall(_)
\* The position in the trace of the latest call of Cartesian.ConvertDatum by a caller.
LastCall(i) == IF i = 0 \/ trace[i][1] = "ConvertDatum" THEN i ELSE LastCall(i - 1)

\* The Helmert applications of the call of Cartesian.ConvertDatum in progress.
ApplicationsOfCall ==
    SelectSeq(SubSeq(trace, LastCall(Len(trace)) + 1, Len(trace)),
              LAMBDA ev : ev[1] = "applyTransform")

\* C29: Cartesian.ConvertDatum terminates for every pair of source and destination
\* datums with recursion depth at most one and at most two Helmert applications:
\* its only recursive call targets WGS84 and therefore takes the identity branch
\* or the to-hub branch, never the relay branch again.
C29_OneRelay ==
    /\ [](Running =>
            /\ Len(stack) <= 2
            /\ Len(ApplicationsOfCall) <= 2
            /\ Len(stack) = 2 =>
                 /\ stack[1].pc = "relay"
                 /\ stack[2].toDatum.Name = "WGS84"
                 /\ stack[2].pc # "relay")
    /\ (pc = "CD" ~> pc # "CD")

\* A conversion between two datums other than WGS84 about to return: one nested
\* call made and returned, two Helmert transforms applied.
C29_Witness ==
    /\ Running /\ Len(stack) = 1 /\ Top.pc = "return"
    /\ Top.c.Datum.Name \notin {"WGS84", Top.toDatum.Name}
    /\ Top.toDatum.Name # "WGS84"
    /\ Len(ApplicationsOfCall) = 2

(***************************************************************************)
(* Properties of the vectors and the polygons                              *)
(***************************************************************************)

\* Two numbers less than 10^-10 apart, the tolerance of the package's tests.
InDelta(x, y) == FLt(FAbs(x (-) y), One (/) (Num(100000) (.) Num(100000)))

\* atan2(|v x w|, v . w), negated when extraPlanar and n . (v x w) < 0.
AngleBetween(given) ==
    With3(Length(Cross(given.v, given.other)), Dot(given.v, given.other),
          Dot(given.n, Cross(given.v, given.other)), LAMBDA sin, cos, side :
      IF given.extraPlanar /\ FLt(side, Zero) THEN FNeg(FAtan2(sin, cos)) ELSE FAtan2(sin, cos))

\* C21: Vector3d.AngleTo(other, false, n) returns atan2(|v x other|, v . other),
\* the angle between v and other in 0..pi (pi/2 for perpendicular vectors, pi for
\* opposite vectors, 0 for parallel vectors); with extraPlanar true the angle is
\* negated when n . (v x other) < 0.
C21_AngleTo ==
    (op = "AngleTo" /\ pc = "done") =>
        With(AngleBetween(vec), LAMBDA angle : InDelta(got, angle))

\* The vector v as the rotation about `axis` by `angle` degrees leaves it.
RotatedAbout(given) ==
    With3(Unit(given.v), Unit(given.axis), given.angle (.) toRadians,
          LAMBDA p, ax, theta : MatrixTimes(p, ax, theta))

\* Two vectors with the same direction: their unit vectors agree within 10^-10.
SameDirection(v, w) ==
    With2(Unit(v), Unit(w), LAMBDA p, q :
      InDelta(p.X, q.X) /\ InDelta(p.Y, q.Y) /\ InDelta(p.Z, q.Z))

\* C22: Vector3d.RotateAround(axis, angle) returns v rotated about the supplied
\* axis by angle degrees: the result depends on the axis argument (the x unit
\* vector rotated 180 degrees about the z axis is the -x unit vector, and rotated
\* 90 degrees about the z axis is the y unit vector), and a rotation by 0 degrees
\* keeps v's direction.
C22_RotateAround ==
    (op = "RotateAround" /\ pc = "done") =>
        /\ With(RotatedAbout(vec), LAMBDA rotated : SameDirection(got, rotated))
        /\ vec.angle = Zero => SameDirection(got, vec.v)
        /\ (vec.v = Vector3d(Num(1), Zero, Zero) /\ vec.axis = Vector3d(Zero, Zero, Num(1))) =>
             /\ vec.angle = Num(180) => SameDirection(got, Vector3d(Num(-1), Zero, Zero))
             /\ vec.angle = Num(90) => SameDirection(got, Vector3d(Zero, Num(1), Zero))

\* C23: AreaOf returns 0, without panicking, for every non-empty polygon that has
\* fewer than three vertices (a single point or a line of two points).
C23_ShortPolygonZero ==
    \A g \in DOMAIN calls :
        (op = "AreaOf" /\ calls[g].pc = "done" /\ calls[g].caller \in {1, 2})
           => calls[g].err = "nil" /\ calls[g].A = Zero

\* The elements of the caller's array the call is about to write.
Writing(call) ==
    IF /\ call.pc = "close" /\ call.polygon.shared
       /\ array[1] # array[call.polygon.len]
       /\ call.polygon.len < Len(array)
    THEN {call.polygon.len + 1} ELSE {}

\* The elements of the caller's array the call reads until it returns.
Reading(call) ==
    IF call.pc # "done" /\ call.polygon.shared THEN 1..call.polygon.len ELSE {}

\* The elements of the caller's array the call has written.
Written(call) ==
    IF call.polygon.shared /\ call.polygon.len = call.caller + 1
    THEN {call.polygon.len} ELSE {}

\* One call has written an element that another call, still in progress, reads or
\* is about to write.
Race ==
    \E g, h \in DOMAIN calls :
        g # h /\ Written(calls[g]) \cap (Reading(calls[h]) \cup Writing(calls[h])) # {}

\* C30: AreaOf leaves the caller's polygon unchanged, including the elements of the
\* caller's backing array beyond the slice's length: closing an open polygon by
\* appending its first vertex never writes into storage shared with the caller, so
\* two concurrent AreaOf calls on slices that share one array cannot race.
C30_CallerStorageUntouched ==
    op = "AreaOf" => (\A g \in DOMAIN calls : array = calls[g].given) /\ ~Race

====
